---- MODULE Spec2Model ----
(***************************************************************************)
(* A model of the Mava builder/callback orchestration core                 *)
(* (mava/systems/building.py, mava/components/building/tables.py) and of   *)
(* the parameter store (mava/systems/tf/variable_sources.py,               *)
(* mava/systems/variable_server.py).                                       *)
(*                                                                         *)
(* Python values are records tagged by a field k.  An attribute that was   *)
(* never assigned is Absent: reading it raises AttributeError.             *)
(***************************************************************************)
EXTENDS Integers, Sequences, FiniteSets, TLC

(* ------------------------------ bounds -------------------------------- *)

MaxComponents == 3   \* longest component list given to the builder
MaxOps == 2          \* make_* calls made on one builder
MaxInput == 2        \* distinct argument values per parameter
NumTrainers == 2     \* entries of table_network_config

Inputs == 1..MaxInput

(* ------------------------------ values -------------------------------- *)

Absent == [k |-> "absent"]
None == [k |-> "None"]
In(name, i) == [k |-> name, i |-> i]

NoError == [k |-> "none", at |-> "", hook |-> "", comp |-> 0]
Raised(at, hook, comp) == [k |-> "raised", at |-> at, hook |-> hook, comp |-> comp]

VARIABLES
    components,   \* the component list handed to OnlineSystemBuilder(...)
    callbacks,    \* builder.callbacks
    builder,      \* the builder's attribute namespace: attribute name -> value
    before,       \* that namespace as the last operation found it
    calls,        \* hook invocations of the last operation, in order
    ret,          \* what the last operation returned
    error,        \* the exception the last operation raised, or NoError
    op,           \* the last operation
    nops,         \* make_* calls made so far
    callargs      \* the arguments of the last make_* call, by stash attribute

bvars == <<components, callbacks, builder, before, calls, ret, error, op, nops, callargs>>

(* ------------------- the builder's attribute namespace ---------------- *)

StashFields ==
    {"_env_spec", "_replay_client", "_table_name", "_networks",
     "_policy_networks", "_adder", "_variable_source", "_dataset",
     "_trainer_networks", "_trainer_table_entry", "_logger"}

InitFields == {"_agents", "_agent_types"}

ArtifactFields ==
    {"replay_tables", "dataset", "adder", "variable_server", "executor",
     "trainer"}

ComponentFields ==
    {"_config", "table_network_config", "adder_signature_fn",
     "rate_limiter_fn", "adder_priority_fn", "_variable_client",
     "environment_spec", "extra_specs"}

Fields == StashFields \cup InitFields \cup ArtifactFields \cup ComponentFields

NewObject == [f \in Fields |-> Absent]

(* The arguments of a call, by the attribute the body assigns each to. *)
NoArguments == [f \in StashFields |-> Absent]
Arguments(m) == [f \in StashFields |-> IF f \in DOMAIN m THEN m[f] ELSE Absent]

Has(b, f) == b[f] # Absent
Write(b, f, v) == [b EXCEPT ![f] = v]

(* ----------------------------- components ------------------------------ *)

(* The component classes a system is assembled from.  OffPolicyReplayTables *)
(* is the class of tables.py.  The others stand for the components the      *)
(* system definitions list (maddpg/building.py, maddpg_v2/system.py): a     *)
(* setup component that supplies the configuration, the rate limiter and    *)
(* adder signature (ReplaySetup), a component that answers the builder's    *)
(* table hook (ReplayTables), a dataset, an adder, a variable server, an    *)
(* executor and a trainer with their variable clients, and a component that *)
(* hooks every ..._start and ..._end.                                       *)
Kinds ==
    {"SystemSetup", "ReplaySetup", "ReplayTables", "OffPolicyReplayTables",
     "DatasetIterator", "ParallelNStepTransitionAdder", "VariableServer",
     "Executor", "Trainer", "Decorator"}

StartHooks ==
    {"on_building_make_replay_table_start",
     "on_building_make_dataset_iterator_start",
     "on_building_make_adder_start",
     "on_building_make_variable_server_start",
     "on_building_make_executor_start",
     "on_building_make_trainer_start"}

EndHooks ==
    {"on_building_make_replay_table_end",
     "on_building_make_dataset_iterator_end",
     "on_building_make_adder_end",
     "on_building_make_variable_server_end",
     "on_building_make_executor_end",
     "on_building_make_trainer_end"}

(* The artifact an ..._end hook finds on the builder. *)
ArtifactOfEnd(hook) ==
    CASE hook = "on_building_make_replay_table_end" -> "replay_tables"
      [] hook = "on_building_make_dataset_iterator_end" -> "dataset"
      [] hook = "on_building_make_adder_end" -> "adder"
      [] hook = "on_building_make_variable_server_end" -> "variable_server"
      [] hook = "on_building_make_executor_end" -> "executor"
      [] OTHER -> "trainer"

(* The hook methods the classes Tables and OffPolicyReplayTables define. *)
TablesHooks == {"on_building_tables_make_tables"}

(* The hook methods a component class defines. *)
Defines(kind) ==
    CASE kind = "SystemSetup" -> {"on_building_init_start"}
      [] kind = "ReplaySetup" ->
            {"on_building_adder_signature", "on_building_rate_limiter"}
      [] kind = "ReplayTables" -> {"on_building_make_tables"}
      [] kind = "OffPolicyReplayTables" -> TablesHooks
      [] kind = "DatasetIterator" -> {"on_building_dataset"}
      [] kind = "ParallelNStepTransitionAdder" ->
            {"on_building_adder_priority", "on_building_make_adder"}
      [] kind = "VariableServer" -> {"on_building_variable_server"}
      [] kind = "Executor" ->
            {"on_building_executor_variable_client", "on_building_executor"}
      [] kind = "Trainer" ->
            {"on_building_trainer_variable_client", "on_building_trainer",
             "on_building_trainer_statistics"}
      [] OTHER -> StartHooks \cup EndHooks \cup {"on_building_init_end"}

(* Attributes Tables.__init__ assigns on the component itself. *)
TablesAttrs == {"name", "sampler", "remover", "max_size", "max_times_sampled"}

Ok(b) == [b |-> b, err |-> NoError]
Fail(b, hook, i) == [b |-> b, err |-> Raised("hook", hook, i)]

(* A hook body that reads the attributes `reads` of the builder and then    *)
(* assigns `v` to its attribute `f`.                                         *)
Assign(b, hook, i, reads, f, v) ==
    IF \A r \in reads : Has(b, r) THEN Ok(Write(b, f, v)) ELSE Fail(b, hook, i)

(* One replay table per trainer group: trainer_id t - 1 at position t. *)
TableList(n, name, limiter, signature) ==
    [t \in 1..n |->
        [name |-> <<name, t - 1>>, trainer_id |-> t - 1,
         rate_limiter |-> limiter, signature |-> signature]]

(* OffPolicyReplayTables.on_building_tables_make_tables(builder). *)
on_building_tables_make_tables(attrs, i, b) ==
    LET hook == "on_building_tables_make_tables" IN
    IF ~Has(b, "table_network_config") THEN Fail(b, hook, i)
    ELSE LET n == b["table_network_config"].n IN
         IF n = 0
         THEN Ok(Write(b, "replay_tables", [k |-> "tables", by |-> i, tables |-> <<>>]))
         ELSE IF \/ ~Has(b, "environment_spec")
                 \/ "agent_net_keys" \notin attrs
                 \/ ~Has(b, "extra_specs")
                 \/ "replay_table_name" \notin attrs
                 \/ ~Has(b, "rate_limiter_fn")
                 \/ ~Has(b, "adder_signature_fn")
         THEN Fail(b, hook, i)
         ELSE Ok(Write(b, "replay_tables",
                  [k |-> "tables", by |-> i,
                   tables |-> TableList(n, "replay_table_name",
                                        b["rate_limiter_fn"],
                                        [fn |-> b["adder_signature_fn"],
                                         spec |-> b["environment_spec"]])]))

(* A hook that leaves an adder it finds on the builder in place. *)
on_building_make_adder_keep(i, b) ==
    IF Has(b, "adder") THEN Ok(b)
    ELSE Assign(b, "on_building_make_adder", i,
                {"_replay_client", "adder_priority_fn"}, "adder",
                [k |-> "adder", by |-> i, client |-> b["_replay_client"],
                 priority |-> b["adder_priority_fn"]])

(* A component's on_building_make_adder(builder): builder.adder = ... *)
on_building_make_adder(i, b) ==
    Assign(b, "on_building_make_adder", i, {"_replay_client", "adder_priority_fn"},
           "adder",
           [k |-> "adder", by |-> i, client |-> b["_replay_client"],
            priority |-> b["adder_priority_fn"]])

(* An ..._end hook stamps the finished artifact, replacing an older stamp. *)
Undecorated(v) == IF v.k = "decorated" THEN v.inner ELSE v

(* The body of component i's method `hook`, run on builder namespace b. *)
ApplyHook(kind, i, hook, b) ==
    CASE hook = "on_building_init_start" ->
            Ok(Write(Write(b, "_config", [k |-> "config", by |-> i]),
                     "table_network_config",
                     [k |-> "table_network_config", n |-> NumTrainers]))
      [] hook = "on_building_adder_signature" ->
            Ok(Write(b, "adder_signature_fn", [k |-> "adder_signature_fn", by |-> i]))
      [] hook = "on_building_rate_limiter" ->
            Ok(Write(b, "rate_limiter_fn", [k |-> "rate_limiter_fn", by |-> i]))
      [] hook = "on_building_make_tables" ->
            Assign(b, hook, i,
                   {"table_network_config", "rate_limiter_fn",
                    "adder_signature_fn", "_env_spec"},
                   "replay_tables",
                   [k |-> "tables", by |-> i,
                    tables |-> TableList(b["table_network_config"].n, "trainer",
                                         b["rate_limiter_fn"],
                                         [fn |-> b["adder_signature_fn"],
                                          spec |-> b["_env_spec"]])])
      [] hook = "on_building_tables_make_tables" ->
            on_building_tables_make_tables(TablesAttrs, i, b)
      [] hook = "on_building_dataset" ->
            Assign(b, hook, i, {"_replay_client", "_table_name"}, "dataset",
                   [k |-> "dataset", by |-> i, client |-> b["_replay_client"],
                    table |-> b["_table_name"]])
      [] hook = "on_building_adder_priority" ->
            Ok(Write(b, "adder_priority_fn", [k |-> "adder_priority_fn", by |-> i]))
      [] hook = "on_building_make_adder" -> on_building_make_adder(i, b)
      [] hook = "on_building_variable_server" ->
            Assign(b, hook, i, {"_networks"}, "variable_server",
                   [k |-> "variable_server", by |-> i, networks |-> b["_networks"]])
      [] hook \in {"on_building_executor_variable_client",
                   "on_building_trainer_variable_client"} ->
            Assign(b, hook, i, {"_variable_source"}, "_variable_client",
                   [k |-> "variable_client", by |-> i,
                    source |-> b["_variable_source"]])
      [] hook = "on_building_executor" ->
            Assign(b, hook, i, {"_policy_networks", "_adder", "_variable_client"},
                   "executor",
                   [k |-> "executor", by |-> i, networks |-> b["_policy_networks"],
                    adder |-> b["_adder"], client |-> b["_variable_client"]])
      [] hook = "on_building_trainer" ->
            Assign(b, hook, i,
                   {"_trainer_networks", "_trainer_table_entry", "_dataset",
                    "_variable_client"},
                   "trainer",
                   [k |-> "trainer", by |-> i, networks |-> b["_trainer_networks"],
                    table |-> b["_trainer_table_entry"], dataset |-> b["_dataset"],
                    client |-> b["_variable_client"]])
      [] hook = "on_building_trainer_statistics" ->
            Assign(b, hook, i, {"trainer", "_logger"}, "trainer",
                   [k |-> "statistics", by |-> i, inner |-> b["trainer"],
                    logger |-> b["_logger"]])
      [] hook \in EndHooks ->
            IF Has(b, ArtifactOfEnd(hook))
            THEN Ok(Write(b, ArtifactOfEnd(hook),
                          [k |-> "decorated", by |-> i,
                           inner |-> Undecorated(b[ArtifactOfEnd(hook)])]))
            ELSE Ok(b)
      [] OTHER -> Ok(b)

(* ------------------------------ dispatch ------------------------------ *)

(* The progress of one operation: the namespace, the hook invocations so    *)
(* far (each with the namespace it was handed) and the exception raised.    *)
Begin(b) == [b |-> b, calls |-> <<>>, err |-> NoError]

(* A dispatch that calls the method on every component, defined or not. *)
RECURSIVE DispatchFromStrict(_, _, _, _)
DispatchFromStrict(cbs, hook, i, s) ==
    IF i > Len(cbs) \/ s.err # NoError THEN s
    ELSE IF hook \notin Defines(cbs[i])
    THEN [s EXCEPT !.err = Raised("hook", hook, i)]
    ELSE LET r == ApplyHook(cbs[i], i, hook, s.b) IN
         DispatchFromStrict(cbs, hook, i + 1,
             [b |-> r.b,
              calls |-> Append(s.calls, [hook |-> hook, comp |-> i, saw |-> s.b]),
              err |-> r.err])

RECURSIVE DispatchFrom(_, _, _, _)
DispatchFrom(cbs, hook, i, s) ==
    IF i > Len(cbs) \/ s.err # NoError THEN s
    ELSE IF hook \notin Defines(cbs[i]) THEN DispatchFrom(cbs, hook, i + 1, s)
    ELSE LET r == ApplyHook(cbs[i], i, hook, s.b) IN
         DispatchFrom(cbs, hook, i + 1,
             [b |-> r.b,
              calls |-> Append(s.calls, [hook |-> hook, comp |-> i, saw |-> s.b]),
              err |-> r.err])

(* self.<hook>(self): every callback's method of that name, in list order. *)
Dispatch(cbs, hook, s) == DispatchFrom(cbs, hook, 1, s)

(* --------------------- OnlineSystemBuilder operations ------------------ *)

(* A statement of an operation's own body: skipped once an exception is up. *)
Then(s, b) == IF s.err # NoError THEN s ELSE [s EXCEPT !.b = b]

(* A return that reads the attribute with a default of None. *)
ReturnOrNone(s, f) ==
    IF s.err # NoError THEN [b |-> s.b, calls |-> s.calls, err |-> s.err, ret |-> Absent]
    ELSE [b |-> s.b, calls |-> s.calls, err |-> NoError,
          ret |-> IF Has(s.b, f) THEN s.b[f] ELSE None]

(* `return self.<f>`: AttributeError when nothing assigned the attribute. *)
Return(s, f) ==
    IF s.err # NoError THEN [b |-> s.b, calls |-> s.calls, err |-> s.err, ret |-> Absent]
    ELSE IF Has(s.b, f) THEN [b |-> s.b, calls |-> s.calls, err |-> NoError, ret |-> s.b[f]]
    ELSE [b |-> s.b, calls |-> s.calls, err |-> Raised("return", f, 0), ret |-> Absent]

(* A builder that stores its components back to front. *)
StoredCallbacksReversed(cs) == [i \in 1..Len(cs) |-> cs[Len(cs) + 1 - i]]

(* OnlineSystemBuilder.__init__(components): the callbacks it stores. *)
StoredCallbacks(cs) == cs

(* A constructor that derives the agents after its last hook. *)
init_agents_last(cbs) ==
    LET s0 == Begin(NewObject)
        s1 == Dispatch(cbs, "on_building_init_start", s0)
        s2 == Dispatch(cbs, "on_building_init_end", s1)
        s3 == IF s2.err # NoError THEN s2
              ELSE IF ~Has(s2.b, "_config")
              THEN [s2 EXCEPT !.err = Raised("body", "_config", 0)]
              ELSE Then(s2,
                     Write(Write(s2.b, "_agents",
                                 [k |-> "agent_ids", config |-> s2.b["_config"]]),
                           "_agent_types",
                           [k |-> "agent_types", config |-> s2.b["_config"]]))
    IN  [b |-> s3.b, calls |-> s3.calls, err |-> s3.err, ret |-> None]

(* OnlineSystemBuilder.__init__(components), after self.callbacks = ... *)
init(cbs) ==
    LET s0 == Begin(NewObject)
        s1 == Dispatch(cbs, "on_building_init_start", s0)
        s2 == IF s1.err # NoError THEN s1
              ELSE IF ~Has(s1.b, "_config")
              THEN [s1 EXCEPT !.err = Raised("body", "_config", 0)]
              ELSE Then(s1,
                     Write(Write(s1.b, "_agents",
                                 [k |-> "agent_ids", config |-> s1.b["_config"]]),
                           "_agent_types",
                           [k |-> "agent_types", config |-> s1.b["_config"]]))
        s3 == Dispatch(cbs, "on_building_init_end", s2)
    IN  [b |-> s3.b, calls |-> s3.calls, err |-> s3.err, ret |-> None]

(* make_replay_tables with the tables made before the rate limiter. *)
make_replay_tables_tables_first(cbs, b, environment_spec) ==
    LET s0 == Begin(Write(b, "_env_spec", environment_spec))
        s1 == Dispatch(cbs, "on_building_make_replay_table_start", s0)
        s2 == Dispatch(cbs, "on_building_adder_signature", s1)
        s3 == Dispatch(cbs, "on_building_make_tables", s2)
        s4 == Dispatch(cbs, "on_building_rate_limiter", s3)
        s5 == Dispatch(cbs, "on_building_make_replay_table_end", s4)
    IN  Return(s5, "replay_tables")

make_replay_tables(cbs, b, environment_spec) ==
    LET s0 == Begin(Write(b, "_env_spec", environment_spec))
        s1 == Dispatch(cbs, "on_building_make_replay_table_start", s0)
        s2 == Dispatch(cbs, "on_building_adder_signature", s1)
        s3 == Dispatch(cbs, "on_building_rate_limiter", s2)
        s4 == Dispatch(cbs, "on_building_make_tables", s3)
        s5 == Dispatch(cbs, "on_building_make_replay_table_end", s4)
    IN  Return(s5, "replay_tables")

(* make_dataset_iterator that picks its result up before the end hook. *)
make_dataset_iterator_early_result(cbs, b, replay_client, table_name) ==
    LET s0 == Begin(Write(Write(b, "_replay_client", replay_client),
                          "_table_name", table_name))
        s1 == Dispatch(cbs, "on_building_make_dataset_iterator_start", s0)
        s2 == Dispatch(cbs, "on_building_dataset", s1)
        s3 == Dispatch(cbs, "on_building_make_dataset_iterator_end", s2)
        r == Return(s3, "dataset")
    IN  [r EXCEPT !.ret = IF r.err = NoError THEN s2.b["dataset"] ELSE Absent]

make_dataset_iterator(cbs, b, replay_client, table_name) ==
    LET s0 == Begin(Write(Write(b, "_replay_client", replay_client),
                          "_table_name", table_name))
        s1 == Dispatch(cbs, "on_building_make_dataset_iterator_start", s0)
        s2 == Dispatch(cbs, "on_building_dataset", s1)
        s3 == Dispatch(cbs, "on_building_make_dataset_iterator_end", s2)
    IN  Return(s3, "dataset")

make_adder(cbs, b, replay_client) ==
    LET s0 == Begin(Write(b, "_replay_client", replay_client))
        s1 == Dispatch(cbs, "on_building_make_adder_start", s0)
        s2 == Dispatch(cbs, "on_building_adder_priority", s1)
        s3 == Dispatch(cbs, "on_building_make_adder", s2)
        s4 == Dispatch(cbs, "on_building_make_adder_end", s3)
    IN  Return(s4, "adder")

make_variable_server(cbs, b, networks) ==
    LET s0 == Begin(Write(b, "_networks", networks))
        s1 == Dispatch(cbs, "on_building_make_variable_server_start", s0)
        s2 == Dispatch(cbs, "on_building_variable_server", s1)
        s3 == Dispatch(cbs, "on_building_make_variable_server_end", s2)
    IN  Return(s3, "variable_server")

(* make_executor that stashes the adder it is given as builder.adder. *)
make_executor_over_adder(cbs, b, networks, policy_networks, adder, variable_source) ==
    LET s0 == Begin(Write(Write(Write(Write(b,
                        "_networks", networks),
                        "_policy_networks", policy_networks),
                        "adder", adder),
                        "_variable_source", variable_source))
        s1 == Dispatch(cbs, "on_building_make_executor_start", s0)
        s2 == Dispatch(cbs, "on_building_executor_variable_client", s1)
        s3 == Dispatch(cbs, "on_building_executor", s2)
        s4 == Dispatch(cbs, "on_building_make_executor_end", s3)
    IN  Return(s4, "executor")

(* make_executor that keeps a variable source an earlier call stashed. *)
make_executor_keep_source(cbs, b, networks, policy_networks, adder, variable_source) ==
    LET s0 == Begin(Write(Write(Write(Write(b,
                        "_networks", networks),
                        "_policy_networks", policy_networks),
                        "_adder", adder),
                        "_variable_source",
                        IF Has(b, "_variable_source") THEN b["_variable_source"]
                        ELSE variable_source))
        s1 == Dispatch(cbs, "on_building_make_executor_start", s0)
        s2 == Dispatch(cbs, "on_building_executor_variable_client", s1)
        s3 == Dispatch(cbs, "on_building_executor", s2)
        s4 == Dispatch(cbs, "on_building_make_executor_end", s3)
    IN  Return(s4, "executor")

make_executor(cbs, b, networks, policy_networks, adder, variable_source) ==
    LET s0 == Begin(Write(Write(Write(Write(b,
                        "_networks", networks),
                        "_policy_networks", policy_networks),
                        "_adder", adder),
                        "_variable_source", variable_source))
        s1 == Dispatch(cbs, "on_building_make_executor_start", s0)
        s2 == Dispatch(cbs, "on_building_executor_variable_client", s1)
        s3 == Dispatch(cbs, "on_building_executor", s2)
        s4 == Dispatch(cbs, "on_building_make_executor_end", s3)
    IN  Return(s4, "executor")

(* make_trainer that stashes the dataset after its ..._start hook. *)
make_trainer_dataset_late(cbs, b, networks, dataset, variable_source, trainer_networks, trainer_table_entry, logger) ==
    LET s0 == Begin(Write(Write(Write(Write(Write(b,
                        "_networks", networks),
                        "_variable_source", variable_source),
                        "_trainer_networks", trainer_networks),
                        "_trainer_table_entry", trainer_table_entry),
                        "_logger", logger))
        s1 == Dispatch(cbs, "on_building_make_trainer_start", s0)
        s2 == Dispatch(cbs, "on_building_trainer_variable_client",
                       Then(s1, Write(s1.b, "_dataset", dataset)))
        s3 == Dispatch(cbs, "on_building_trainer", s2)
        s4 == Dispatch(cbs, "on_building_trainer_statistics", s3)
        s5 == Dispatch(cbs, "on_building_make_trainer_end", s4)
    IN  Return(s5, "trainer")

make_trainer(cbs, b, networks, dataset, variable_source, trainer_networks, trainer_table_entry, logger) ==
    LET s0 == Begin(Write(Write(Write(Write(Write(Write(b,
                        "_networks", networks),
                        "_dataset", dataset),
                        "_variable_source", variable_source),
                        "_trainer_networks", trainer_networks),
                        "_trainer_table_entry", trainer_table_entry),
                        "_logger", logger))
        s1 == Dispatch(cbs, "on_building_make_trainer_start", s0)
        s2 == Dispatch(cbs, "on_building_trainer_variable_client", s1)
        s3 == Dispatch(cbs, "on_building_trainer", s2)
        s4 == Dispatch(cbs, "on_building_trainer_statistics", s3)
        s5 == Dispatch(cbs, "on_building_make_trainer_end", s4)
    IN  Return(s5, "trainer")

(* ------------------------ the variable collection ---------------------- *)

MaxCount == 3    \* largest number a stored counter is driven to
MaxNames == 2    \* longest sequence of names passed to one call

(* A stored entry is a tf.Variable or a tuple of them; what a client sends  *)
(* or receives is a numpy value, a tuple of them, or a Python list.  v      *)
(* holds the numbers: one for a scalar, one per element otherwise.          *)
Variable(n) == [k |-> "scalar", e |-> "Variable", v |-> <<n>>]
VariableTuple(ns) == [k |-> "tuple", e |-> "Variable", v |-> ns]
Array(n) == [k |-> "scalar", e |-> "ndarray", v |-> <<n>>]
ArrayTuple(ns) == [k |-> "tuple", e |-> "ndarray", v |-> ns]
List(ns) == [k |-> "list", e |-> "int", v |-> ns]

(* The collection a VariableSource is constructed with. *)
InitialVariables ==
    ("count" :> Variable(0)) @@ ("policy" :> VariableTuple(<<0, 0>>))
        @@ ("obs" :> VariableTuple(<<>>))

AllNames == DOMAIN InitialVariables \cup {"missing"}

(* names: one key (a str) or a sequence of keys. *)
Str(key) == [k |-> "str", keys |-> <<key>>]
Seq_(keys) == [k |-> "seq", keys |-> keys]
Dict(m) == [k |-> "dict", m |-> m]

Range(f) == {f[x] : x \in DOMAIN f}

(* acme.tf.utils.to_numpy: every tf.Variable of the structure as numpy. *)
to_numpy(x) == [x EXCEPT !.e = "ndarray"]

(* The numbers a value shows to an observer. *)
Content(x) == [k |-> x.k, v |-> x.v]

VARIABLES
    variables,   \* self.variables
    server,      \* the VariableServer's attributes _names and _vars
    vop,         \* the last call: its name and arguments
    vret,        \* what the last call returned
    verr,        \* the exception the last call raised, or NoError
    run          \* the calls add_to_variables(["count"], 1) made in a row

svars == <<variables, server, vop, vret, verr, run>>

(* VariableSource.get_variables(names). *)
RECURSIVE GetFrom(_, _, _, _)
GetFrom(vs, keys, i, out) ==
    IF i > Len(keys) THEN [ret |-> Dict(out), err |-> NoError]
    ELSE IF keys[i] \notin DOMAIN vs
    THEN [ret |-> Absent, err |-> Raised("KeyError", keys[i], i)]
    ELSE GetFrom(vs, keys, i + 1,
                 [x \in DOMAIN out \cup {keys[i]} |->
                    IF x = keys[i] THEN to_numpy(vs[x]) ELSE out[x]])

(* A lookup that answers None for a name it does not hold. *)
get_variables_default(vs, names) ==
    IF names.k = "str"
    THEN IF names.keys[1] \in DOMAIN vs
         THEN [vs |-> vs, ret |-> [k |-> "ref", key |-> names.keys[1]], err |-> NoError]
         ELSE [vs |-> vs, ret |-> None, err |-> NoError]
    ELSE LET r == GetFrom(vs, names.keys, 1, <<>>) IN
         [vs |-> vs, ret |-> r.ret, err |-> r.err]

get_variables(vs, names) ==
    IF names.k = "str"
    THEN IF names.keys[1] \in DOMAIN vs
         THEN [vs |-> vs, ret |-> [k |-> "ref", key |-> names.keys[1]], err |-> NoError]
         ELSE [vs |-> vs, ret |-> Absent, err |-> Raised("KeyError", names.keys[1], 1)]
    ELSE LET r == GetFrom(vs, names.keys, 1, <<>>) IN
         [vs |-> vs, ret |-> r.ret, err |-> r.err]

(* if type(names) == str: vars = {names: vars}; names = [names] *)
Normalise(names, vars) ==
    IF names.k = "str" THEN Dict(names.keys[1] :> vars) ELSE vars

(* stored.assign(value) on each element of a tuple entry, in order; an     *)
(* element the value does not have raises after the earlier ones are set.  *)
AssignTuple(stored, value) ==
    LET have == IF value.k = "scalar" THEN 0 ELSE Len(value.v)
        done == IF have < Len(stored.v) THEN have ELSE Len(stored.v)
    IN  [entry |-> [stored EXCEPT !.v =
                        [j \in DOMAIN stored.v |->
                            IF j <= done THEN value.v[j] ELSE stored.v[j]]],
         ok |-> done = Len(stored.v)]

(* An iteration that creates the entry it does not find. *)
SetOneInserting(vs, vars, key, i) ==
    IF vars.k # "dict" THEN [vs |-> vs, err |-> Raised("TypeError", key, i)]
    ELSE IF key \notin DOMAIN vars.m THEN [vs |-> vs, err |-> Raised("KeyError", key, i)]
    ELSE IF key \notin DOMAIN vs
    THEN [vs |-> [x \in DOMAIN vs \cup {key} |->
                    IF x = key THEN [vars.m[key] EXCEPT !.e = "Variable"] ELSE vs[x]],
          err |-> NoError]
    ELSE IF vs[key].k = "tuple"
    THEN LET r == AssignTuple(vs[key], vars.m[key]) IN
         [vs |-> [vs EXCEPT ![key] = r.entry],
          err |-> IF r.ok THEN NoError ELSE Raised("IndexError", key, i)]
    ELSE IF vars.m[key].k = "scalar"
    THEN [vs |-> [vs EXCEPT ![key] = Variable(vars.m[key].v[1])], err |-> NoError]
    ELSE [vs |-> vs, err |-> Raised("ValueError", key, i)]

(* One iteration of set_variables' loop. *)
SetOne(vs, vars, key, i) ==
    IF key \notin DOMAIN vs THEN [vs |-> vs, err |-> Raised("AssertionError", key, i)]
    ELSE IF vars.k # "dict" THEN [vs |-> vs, err |-> Raised("TypeError", key, i)]
    ELSE IF key \notin DOMAIN vars.m THEN [vs |-> vs, err |-> Raised("KeyError", key, i)]
    ELSE IF vs[key].k = "tuple"
    THEN LET r == AssignTuple(vs[key], vars.m[key]) IN
         [vs |-> [vs EXCEPT ![key] = r.entry],
          err |-> IF r.ok THEN NoError ELSE Raised("IndexError", key, i)]
    ELSE IF vars.m[key].k = "scalar"
    THEN [vs |-> [vs EXCEPT ![key] = Variable(vars.m[key].v[1])], err |-> NoError]
    ELSE [vs |-> vs, err |-> Raised("ValueError", key, i)]

(* A loop that goes on to the next name after a failure. *)
RECURSIVE SetFromContinue(_, _, _, _)
SetFromContinue(vs, keys, vars, i) ==
    IF i > Len(keys) THEN [vs |-> vs, err |-> NoError]
    ELSE LET r == SetOne(vs, vars, keys[i], i)
             rest == SetFromContinue(r.vs, keys, vars, i + 1)
         IN  [vs |-> rest.vs, err |-> IF r.err # NoError THEN r.err ELSE rest.err]

RECURSIVE SetFrom(_, _, _, _)
SetFrom(vs, keys, vars, i) ==
    IF i > Len(keys) THEN [vs |-> vs, err |-> NoError]
    ELSE LET r == SetOne(vs, vars, keys[i], i) IN
         IF r.err # NoError THEN r ELSE SetFrom(r.vs, keys, vars, i + 1)

(* VariableSource.set_variables(names, vars). *)
set_variables(vs, names, vars) ==
    LET r == SetFrom(vs, names.keys, Normalise(names, vars), 1) IN
    [vs |-> r.vs, ret |-> IF r.err = NoError THEN None ELSE Absent, err |-> r.err]

(* An iteration that assigns the value where it should add it. *)
AddOneAssign(vs, vars, key, i) ==
    IF key \notin DOMAIN vs THEN [vs |-> vs, err |-> Raised("AssertionError", key, i)]
    ELSE IF vs[key].k = "tuple" THEN [vs |-> vs, err |-> Raised("AttributeError", key, i)]
    ELSE IF vars.k # "dict" THEN [vs |-> vs, err |-> Raised("TypeError", key, i)]
    ELSE IF key \notin DOMAIN vars.m THEN [vs |-> vs, err |-> Raised("KeyError", key, i)]
    ELSE IF vars.m[key].k = "scalar"
    THEN [vs |-> [vs EXCEPT ![key] = Variable(vars.m[key].v[1])], err |-> NoError]
    ELSE [vs |-> vs, err |-> Raised("ValueError", key, i)]

(* An iteration that adds to a tuple entry element by element. *)
AddOneElementwise(vs, vars, key, i) ==
    IF key \notin DOMAIN vs THEN [vs |-> vs, err |-> Raised("AssertionError", key, i)]
    ELSE IF vars.k # "dict" THEN [vs |-> vs, err |-> Raised("TypeError", key, i)]
    ELSE IF key \notin DOMAIN vars.m THEN [vs |-> vs, err |-> Raised("KeyError", key, i)]
    ELSE IF vs[key].k = "tuple"
    THEN IF vars.m[key].k = "tuple" /\ Len(vars.m[key].v) = Len(vs[key].v)
         THEN [vs |-> [vs EXCEPT ![key].v =
                          [j \in DOMAIN vs[key].v |-> vs[key].v[j] + vars.m[key].v[j]]],
               err |-> NoError]
         ELSE [vs |-> vs, err |-> Raised("IndexError", key, i)]
    ELSE IF vars.m[key].k = "scalar"
    THEN [vs |-> [vs EXCEPT ![key] = Variable(vs[key].v[1] + vars.m[key].v[1])],
          err |-> NoError]
    ELSE [vs |-> vs, err |-> Raised("ValueError", key, i)]

(* One iteration of add_to_variables' loop. *)
AddOne(vs, vars, key, i) ==
    IF key \notin DOMAIN vs THEN [vs |-> vs, err |-> Raised("AssertionError", key, i)]
    ELSE IF vs[key].k = "tuple" THEN [vs |-> vs, err |-> Raised("AttributeError", key, i)]
    ELSE IF vars.k # "dict" THEN [vs |-> vs, err |-> Raised("TypeError", key, i)]
    ELSE IF key \notin DOMAIN vars.m THEN [vs |-> vs, err |-> Raised("KeyError", key, i)]
    ELSE IF vars.m[key].k = "scalar"
    THEN [vs |-> [vs EXCEPT ![key] = Variable(vs[key].v[1] + vars.m[key].v[1])],
          err |-> NoError]
    ELSE [vs |-> vs, err |-> Raised("ValueError", key, i)]

RECURSIVE AddFrom(_, _, _, _)
AddFrom(vs, keys, vars, i) ==
    IF i > Len(keys) THEN [vs |-> vs, err |-> NoError]
    ELSE LET r == AddOne(vs, vars, keys[i], i) IN
         IF r.err # NoError THEN r ELSE AddFrom(r.vs, keys, vars, i + 1)

(* VariableSource.add_to_variables(names, vars). *)
add_to_variables(vs, names, vars) ==
    LET r == AddFrom(vs, names.keys, Normalise(names, vars), 1) IN
    [vs |-> r.vs, ret |-> IF r.err = NoError THEN None ELSE Absent, err |-> r.err]

(* The VariableServer's work hooks, run by its components on the namespace  *)
(* the call stashed its arguments on.                                       *)
on_variables_get_server_variables(vs, srv) == get_variables(vs, srv._names)
on_variables_set_server_variables(vs, srv) == set_variables(vs, srv._names, srv._vars)
on_variables_add_to_server_variables(vs, srv) ==
    add_to_variables(vs, srv._names, srv._vars)

(* VariableServer.get_variables(names): the method has no return statement. *)
server_get_variables(vs, srv, names) ==
    LET s0 == [srv EXCEPT !._names = names]
        r == on_variables_get_server_variables(vs, s0)
    IN  [vs |-> r.vs, srv |-> s0, err |-> r.err,
         ret |-> IF r.err = NoError THEN None ELSE Absent]

(* VariableServer.set_variables(names, vars). *)
server_set_variables(vs, srv, names, vars) ==
    LET s0 == [srv EXCEPT !._names = names, !._vars = vars]
        r == on_variables_set_server_variables(vs, s0)
    IN  [vs |-> r.vs, srv |-> s0, err |-> r.err, ret |-> r.ret]

(* VariableServer.add_to_variables(names, vars). *)
server_add_to_variables(vs, srv, names, vars) ==
    LET s0 == [srv EXCEPT !._names = names, !._vars = vars]
        r == on_variables_add_to_server_variables(vs, s0)
    IN  [vs |-> r.vs, srv |-> s0, err |-> r.err, ret |-> r.ret]

(* ------------------- the services' construction and run ---------------- *)

VARIABLES
    phase,         \* the VariableServer: "none", "initializing" or "serving"
    slog,          \* the hooks the VariableServer dispatched on itself, in order
    service,       \* the class whose run() is followed, or "none"
    checkpoint,    \* the constructor's checkpoint flag
    checkpointer,  \* self._system_checkpointer
    rpc,           \* run()'s position
    sleeps,        \* sleeps run() has completed
    saves,         \* checkpoints run() has written
    rerr,          \* the exception that ended run(), or NoError
    clients,       \* each concurrent client's call in progress
    requested,     \* the deltas of the calls the clients have made, summed
    disk,          \* the latest checkpoint under checkpoint_subpath, or Absent
    atsave,        \* the collection at the moment that checkpoint was written
    fresh,         \* the collection the program constructs when it starts
    estep,         \* environment steps the executor has taken
    period,        \* executor_variable_update_period
    counter,       \* the variable client's steps since it last issued a fetch
    cache,         \* the variable client's cached copy, with when it was current
    future,        \* the variable client's outstanding fetch, or Absent
    waited,        \* steps taken with a fetch outstanding since the cache's fetch
    table,         \* the replay table: its limits, its items and its counts
    added,         \* the items each executor's adder has inserted
    iterator,      \* the trainer's dataset iterator: position and samples yielded
    tcomp,         \* a Tables component's attributes, or Absent before __init__
    tbuild,        \* the builder attributes the component's table hook works on
    top,           \* the last operation on the component
    terr,          \* the exception that operation raised, or NoError
    executor,      \* the attributes of an executor the Observer's hooks read
    observed,      \* the Observer hooks invoked on the executor, in order
    adder_calls,   \* the calls the executor's adder has received, in order
    oerr,          \* the exception an Observer hook raised, or NoError
    wrapper,       \* an environment wrapper's attributes, or Absent
    environment,   \* the wrapped PettingZoo environment
    wcall,         \* the last call on the wrapper and what it did to the environment
    timestep,      \* the dm_env.TimeStep that call returned
    wlog,          \* the step types the wrapper has returned, in order
    envspec,       \* an environment spec as the caller of the conversion holds it
    envspec0,      \* that spec as it was when the caller made it
    converted,     \* what converting envspec returned, or Absent
    reconverted    \* what converting `converted` returned, or Absent

lvars == <<phase, slog>>
rvars == <<service, checkpoint, checkpointer, rpc, sleeps, saves, rerr>>
cvars == <<clients, requested>>
kvars == <<disk, atsave, fresh>>
evars == <<estep, period, counter, cache, future, waited>>
tvars == <<table, added, iterator>>
pvars == <<tcomp, tbuild, top, terr>>
ovars == <<executor, observed, adder_calls, oerr>>
wvars == <<wrapper, environment, wcall, timestep, wlog>>
dvars == <<envspec, envspec0, converted, reconverted>>
xvars == <<evars, tvars, pvars, ovars, wvars, dvars>>
extras == <<kvars, xvars>>
others == <<lvars, rvars, cvars, extras>>

(* A constructor that checkpoints before it initialises. *)
VariableServerInitCheckpointFirst ==
    <<"on_variables_init_start", "on_variables_checkpoint", "on_variables_init",
      "on_variables_init_end">>

(* VariableServer.__init__(components): the hooks it dispatches, in order. *)
VariableServerInit ==
    <<"on_variables_init_start", "on_variables_init", "on_variables_checkpoint",
      "on_variables_init_end">>

NoServer == phase = "none" /\ slog = <<>>

NoRunning ==
    /\ service = "none"
    /\ checkpoint = FALSE
    /\ checkpointer = Absent
    /\ rpc = "idle"
    /\ sleeps = 0
    /\ saves = 0
    /\ rerr = NoError

NoClients == clients = <<>> /\ requested = 0

NoCheckpoint == disk = Absent /\ atsave = Absent /\ fresh = InitialVariables

NoExecutor ==
    /\ estep = 0
    /\ period = 0
    /\ counter = 0
    /\ cache = Absent
    /\ future = Absent
    /\ waited = 0

NoTable == table = Absent /\ added = <<>> /\ iterator = Absent

NoTables == tcomp = Absent /\ tbuild = Absent /\ top = "none" /\ terr = NoError

NoObserver ==
    executor = Absent /\ observed = <<>> /\ adder_calls = <<>> /\ oerr = NoError

NoWrapper ==
    /\ wrapper = Absent
    /\ environment = Absent
    /\ wcall = Absent
    /\ timestep = Absent
    /\ wlog = <<>>

NoConversion ==
    /\ envspec = Absent
    /\ envspec0 = Absent
    /\ converted = Absent
    /\ reconverted = Absent

NoExtras ==
    /\ NoCheckpoint /\ NoExecutor /\ NoTable /\ NoTables /\ NoObserver
    /\ NoWrapper /\ NoConversion

Quiet == NoServer /\ NoRunning /\ NoClients /\ NoExtras

(* One statement of VariableServer.__init__: the next hook is dispatched;   *)
(* the constructor returns, and the server can be called, after the last.   *)
ServerConstruct ==
    /\ phase = "initializing"
    /\ slog' = Append(slog, VariableServerInit[Len(slog) + 1])
    /\ phase' = IF Len(slog') = Len(VariableServerInit) THEN "serving"
                 ELSE "initializing"
    /\ UNCHANGED <<bvars, svars, rvars, cvars, extras>>

MaxIterations == 10    \* iterations of run() that are followed

(* A constructor that hands every entry to the checkpointer. *)
save_variables_all(vs) == DOMAIN vs

(* A constructor that keeps every tuple entry from the checkpointer. *)
save_variables_no_tuples(vs) == {key \in DOMAIN vs : vs[key].k # "tuple"}

(* The entries VariableSource.__init__ hands to the checkpointer. *)
save_variables(vs) ==
    {key \in DOMAIN vs : ~(vs[key].k = "tuple" /\ Len(vs[key].v) = 0)}

(* VariableSource.__init__: self._system_checkpointer, assigned only when   *)
(* checkpoint is true.                                                      *)
source_init(vs, flag) ==
    IF flag THEN [k |-> "Checkpointer", objects |-> save_variables(vs)]
    ELSE Absent

(* Checkpointer.save(): the entries it was handed are the collection's own  *)
(* tf.Variable objects, so what is written is what they hold at the save.  *)
save(ckpt, vs) == [key \in ckpt.objects |-> Content(vs[key])]

(* Checkpointer.__init__ with a checkpoint under its directory: every      *)
(* entry it was handed is assigned what the checkpoint holds for it.       *)
restore(ckpt, vs, saved) ==
    IF saved = Absent THEN vs
    ELSE [key \in DOMAIN vs |->
            IF key \in ckpt.objects /\ key \in DOMAIN saved
            THEN [vs[key] EXCEPT !.v = saved[key].v]
            ELSE vs[key]]

(* run() so far: its position, its sleeps and saves, its exception. *)
Running(pc, nsleeps, nsaves, err) ==
    [pc |-> pc, sleeps |-> nsleeps, saves |-> nsaves, err |-> err]

(* A run() whose loop saves first and sleeps afterwards. *)
source_run_save_first(st, ckpt) ==
    CASE st.pc = "idle" -> [st EXCEPT !.pc = "check"]
      [] st.pc = "sleep" -> [st EXCEPT !.pc = "check", !.sleeps = @ + 1]
      [] st.pc = "check" ->
            IF ckpt = Absent
            THEN [st EXCEPT !.pc = "raised",
                            !.err = Raised("AttributeError", "_system_checkpointer", 0)]
            ELSE [st EXCEPT !.pc = "save"]
      [] st.pc = "save" -> [st EXCEPT !.pc = "sleep", !.saves = @ + 1]
      [] OTHER -> st

(* One step of VariableSource.run(): while True: time.sleep(15 * 60); then  *)
(* `if self._system_checkpointer:` and, when it holds, .save().            *)
source_run(st, ckpt) ==
    CASE st.pc = "idle" -> [st EXCEPT !.pc = "sleep"]
      [] st.pc = "sleep" -> [st EXCEPT !.pc = "check", !.sleeps = @ + 1]
      [] st.pc = "check" ->
            IF ckpt = Absent
            THEN [st EXCEPT !.pc = "raised",
                            !.err = Raised("AttributeError", "_system_checkpointer", 0)]
            ELSE [st EXCEPT !.pc = "save"]
      [] st.pc = "save" -> [st EXCEPT !.pc = "sleep", !.saves = @ + 1]
      [] OTHER -> st

(* The hooks of one iteration of VariableServer.run(), in order. *)
ServerLoopHooks ==
    <<"on_building_variable_run_server_loop_start",
      "on_variables_run_server_loop_checkpoint",
      "on_variables_run_server_loop",
      "on_variables_run_server_loop_termination",
      "on_building_variable_run_server_loop_end">>

(* The checkpoint hook of the server's components: saves when enabled. *)
on_variables_run_server_loop_checkpoint(nsaves, flag) ==
    IF flag THEN nsaves + 1 ELSE nsaves

(* One step of VariableServer.run(): on_variables_run_server_start, then    *)
(* while True: non_blocking_sleep(10) and the five loop hooks.              *)
server_run(st, flag) ==
    IF st.pc = "idle" THEN [st EXCEPT !.pc = "sleep"]
    ELSE IF st.pc = "sleep"
    THEN [st EXCEPT !.pc = ServerLoopHooks[1], !.sleeps = @ + 1]
    ELSE LET j == CHOOSE i \in DOMAIN ServerLoopHooks : ServerLoopHooks[i] = st.pc IN
         [st EXCEPT
            !.pc = IF j = Len(ServerLoopHooks) THEN "sleep" ELSE ServerLoopHooks[j + 1],
            !.saves = IF st.pc = "on_variables_run_server_loop_checkpoint"
                      THEN on_variables_run_server_loop_checkpoint(@, flag)
                      ELSE @]

Ran(st) ==
    /\ rpc' = st.pc
    /\ sleeps' = st.sleeps
    /\ saves' = st.saves
    /\ rerr' = st.err
    /\ disk' = IF st.saves > saves /\ checkpointer # Absent
               THEN save(checkpointer, variables) ELSE disk
    /\ atsave' = IF st.saves > saves /\ checkpointer # Absent THEN variables ELSE atsave
    /\ UNCHANGED <<bvars, svars, lvars, cvars, service, checkpoint, checkpointer, fresh, xvars>>

SourceRun ==
    /\ service = "VariableSource"
    /\ rpc # "raised"
    /\ rpc = "sleep" => sleeps < MaxIterations
    /\ Ran(source_run(Running(rpc, sleeps, saves, rerr), checkpointer))

ServerRun ==
    /\ service = "VariableServer"
    /\ phase = "serving"
    /\ rpc = "sleep" => sleeps < MaxIterations
    /\ Ran(server_run(Running(rpc, sleeps, saves, rerr), checkpoint))

(* ---------------------- the collection's actions ----------------------- *)

MaxServerNames == 1    \* longest sequence of names passed to the VariableServer

(* names: a key, or a sequence of distinct keys. *)
NameArgs ==
    {Str(key) : key \in AllNames}
        \cup {Seq_(ks) : ks \in {f \in UNION {[1..n -> AllNames] : n \in 0..MaxNames} :
                                    \A i, j \in DOMAIN f : i # j => f[i] # f[j]}}

ServerNameArgs == {names \in NameArgs : Len(names.keys) <= MaxServerNames}

Arity(key) == IF key \in DOMAIN InitialVariables THEN Len(InitialVariables[key].v) ELSE 1

IsTupleKey(key) == key \in DOMAIN InitialVariables /\ InitialVariables[key].k = "tuple"

Counting(n, len) == [j \in 1..len |-> n + j - 1]

(* A value for `key` built from the number n: d elements more or fewer     *)
(* than a tuple entry holds.                                               *)
Payload(key, n, d) ==
    IF IsTupleKey(key)
    THEN ArrayTuple(Counting(n, IF Arity(key) + d < 0 THEN 0 ELSE Arity(key) + d))
    ELSE Array(n)

Shapes(names) == IF \E key \in Range(names.keys) : IsTupleKey(key) THEN {-1, 0, 1} ELSE {0}

(* The second argument of a write: a value for each name, as a mapping by   *)
(* name or, positionally, as a list.                                        *)
VarsArgs(names) ==
    {IF names.k = "str" THEN Payload(names.keys[1], n, d)
     ELSE Dict([key \in Range(names.keys) |-> Payload(key, n, d)]) :
        n \in Inputs, d \in Shapes(names)}
    \cup {List([j \in DOMAIN names.keys |-> 1])}

CountOnly == Seq_(<<"count">>)

(* The run of consecutive add_to_variables(["count"], 1) calls: the         *)
(* collection when it began and how many calls gave the 1 as a list, as a   *)
(* mapping.                                                                 *)
NoRun(vs) == [start |-> vs, nList |-> 0, nDict |-> 0]

NextRun(name, names, vars, vsAfter) ==
    IF name = "add_to_variables" /\ names = CountOnly /\ vars = List(<<1>>)
    THEN [run EXCEPT !.nList = @ + 1]
    ELSE IF name = "add_to_variables" /\ names = CountOnly
            /\ vars = Dict("count" :> Array(1))
    THEN [run EXCEPT !.nDict = @ + 1]
    ELSE NoRun(vsAfter)

Bounded(vs) == \A key \in DOMAIN vs : \A j \in DOMAIN vs[key].v : vs[key].v[j] <= MaxCount

Called(name, names, vars, r, srv) ==
    /\ Bounded(r.vs)
    /\ variables' = r.vs
    /\ server' = srv
    /\ vop' = [name |-> name, names |-> names, vars |-> vars]
    /\ vret' = r.ret
    /\ verr' = r.err
    /\ run' = NextRun(name, names, vars, r.vs)
    /\ run'.nList + run'.nDict <= MaxCount
    /\ UNCHANGED <<bvars, others>>

GetVariables ==
    /\ op = "new"
    /\ \E names \in NameArgs :
        Called("get_variables", names, None, get_variables(variables, names), server)

SetVariables ==
    /\ op = "new"
    /\ \E names \in NameArgs : \E vars \in VarsArgs(names) :
        Called("set_variables", names, vars,
               set_variables(variables, names, vars), server)

AddToVariables ==
    /\ op = "new"
    /\ \E names \in NameArgs : \E vars \in VarsArgs(names) :
        Called("add_to_variables", names, vars,
               add_to_variables(variables, names, vars), server)

ServerGetVariables ==
    /\ op = "new"
    /\ phase = "serving"
    /\ \E names \in ServerNameArgs :
        LET r == server_get_variables(variables, server, names) IN
        Called("get_variables", names, None, r, r.srv)

ServerSetVariables ==
    /\ op = "new"
    /\ phase = "serving"
    /\ \E names \in ServerNameArgs : \E vars \in VarsArgs(names) :
        LET r == server_set_variables(variables, server, names, vars) IN
        Called("set_variables", names, vars, r, r.srv)

ServerAddToVariables ==
    /\ op = "new"
    /\ phase = "serving"
    /\ \E names \in ServerNameArgs : \E vars \in VarsArgs(names) :
        LET r == server_add_to_variables(variables, server, names, vars) IN
        Called("add_to_variables", names, vars, r, r.srv)

NewServer == [_names |-> Absent, _vars |-> Absent]

NoBuilder ==
    /\ components = <<>>
    /\ callbacks = <<>>
    /\ builder = NewObject
    /\ before = NewObject
    /\ calls = <<>>
    /\ ret = Absent
    /\ error = NoError
    /\ op = "new"
    /\ nops = 0
    /\ callargs = NoArguments

VarInit ==
    /\ NoBuilder
    /\ variables = InitialVariables
    /\ server = NewServer
    /\ vop = [name |-> "__init__", names |-> Absent, vars |-> Absent]
    /\ vret = None
    /\ verr = NoError
    /\ run = NoRun(InitialVariables)
    /\ Quiet

VarNext == GetVariables \/ SetVariables \/ AddToVariables

(* A VariableServer about to be constructed over a new collection. *)
ServerInit ==
    /\ NoBuilder
    /\ variables = InitialVariables
    /\ server = NewServer
    /\ vop = [name |-> "__init__", names |-> Absent, vars |-> Absent]
    /\ vret = None
    /\ verr = NoError
    /\ run = NoRun(InitialVariables)
    /\ phase = "initializing"
    /\ slog = <<>>
    /\ NoRunning
    /\ NoClients
    /\ NoExtras

(* A service constructed with or without checkpointing, run() not called. *)
RunInit ==
    /\ NoBuilder
    /\ variables = InitialVariables
    /\ server = NewServer
    /\ vop = [name |-> "__init__", names |-> Absent, vars |-> Absent]
    /\ vret = None
    /\ verr = NoError
    /\ run = NoRun(InitialVariables)
    /\ service \in {"VariableSource", "VariableServer"}
    /\ checkpoint \in BOOLEAN
    /\ checkpointer = IF service = "VariableSource"
                      THEN source_init(variables, checkpoint) ELSE Absent
    /\ phase = IF service = "VariableServer" THEN "initializing" ELSE "none"
    /\ slog = <<>>
    /\ rpc = "idle"
    /\ sleeps = 0
    /\ saves = 0
    /\ rerr = NoError
    /\ NoClients
    /\ NoExtras

RunNext == ServerConstruct \/ SourceRun \/ ServerRun

ServerNext ==
    \/ ServerConstruct
    \/ ServerGetVariables
    \/ ServerSetVariables
    \/ ServerAddToVariables

(* ------------------------ checkpoint and restart ------------------------ *)

MaxSaves == 2    \* checkpoints one process is followed through
MaxWrite == 1    \* largest number a client writes or adds

(* What a collection can hold under a key: a variable, a tuple of          *)
(* variables, or the empty tuple of a network without parameters.          *)
Entries == {Variable(0), VariableTuple(<<0, 0>>), VariableTuple(<<>>)}

Collections == [DOMAIN InitialVariables -> Entries]

(* A value of the shape of the stored entry, every number n. *)
Filled(stored, n) ==
    IF stored.k = "tuple" THEN ArrayTuple([j \in DOMAIN stored.v |-> n]) ELSE Array(n)

(* A VariableSource constructed over a collection, run() not called. *)
CkptInit ==
    /\ NoBuilder
    /\ fresh \in Collections
    /\ variables = fresh
    /\ server = NewServer
    /\ vop = [name |-> "__init__", names |-> Absent, vars |-> Absent]
    /\ vret = None
    /\ verr = NoError
    /\ run = NoRun(InitialVariables)
    /\ service = "VariableSource"
    /\ checkpoint \in BOOLEAN
    /\ checkpointer = source_init(variables, checkpoint)
    /\ rpc = "idle"
    /\ sleeps = 0
    /\ saves = 0
    /\ rerr = NoError
    /\ disk = Absent
    /\ atsave = Absent
    /\ NoExecutor
    /\ NoTable
    /\ NoTables
    /\ NoObserver
    /\ NoWrapper
    /\ NoConversion
    /\ NoServer
    /\ NoClients

Wrote(name, key, value, r) ==
    /\ r.err = NoError
    /\ Bounded(r.vs)
    /\ variables' = r.vs
    /\ vop' = [name |-> name, names |-> Seq_(<<key>>), vars |-> Dict(key :> value)]
    /\ vret' = r.ret
    /\ verr' = r.err
    /\ UNCHANGED <<bvars, lvars, rvars, cvars, extras, server, run>>

(* A client writes one entry while run() sleeps or saves. *)
SourceWrite ==
    /\ service = "VariableSource"
    /\ \E key \in DOMAIN variables, n \in 1..MaxWrite :
        LET value == Filled(variables[key], n) IN
        \/ Wrote("set_variables", key, value,
                 set_variables(variables, Seq_(<<key>>), Dict(key :> value)))
        \/ Wrote("add_to_variables", key, value,
                 add_to_variables(variables, Seq_(<<key>>), Dict(key :> value)))

(* The process ends and the program starts again: a VariableSource is      *)
(* constructed over a new collection, with the same checkpoint_subpath.    *)
SourceRestart ==
    /\ service = "VariableSource"
    /\ vop.name # "__init__"
    /\ checkpointer' = source_init(fresh, checkpoint)
    /\ variables' = IF checkpoint THEN restore(checkpointer', fresh, disk) ELSE fresh
    /\ vop' = [name |-> "__init__", names |-> Absent, vars |-> Absent]
    /\ vret' = None
    /\ verr' = NoError
    /\ rpc' = "idle"
    /\ sleeps' = 0
    /\ saves' = 0
    /\ rerr' = NoError
    /\ UNCHANGED <<bvars, lvars, cvars, extras, server, run, service, checkpoint>>

(* run() of the process, followed through its first checkpoints. *)
SourceCheckpoints ==
    /\ saves < MaxSaves
    /\ SourceRun

CkptNext == SourceCheckpoints \/ SourceWrite \/ SourceRestart

(* ----------------------- clients calling at once ------------------------ *)

NumClients == 2    \* clients calling add_to_variables at the same time
MaxDelta == 2      \* largest amount one call adds

Clients == 1..NumClients

(* What a client passes to add_to_variables to add delta to "count". *)
DeltaArg(delta) == Dict("count" :> Array(delta))

Waiting == [pc |-> "idle", delta |-> 0]

At(c, pc) == clients[c].pc = pc

Goto(c, pc) == clients' = [clients EXCEPT ![c].pc = pc]

(* Two clients of one service over a new collection, no call made yet. *)
ConcInit ==
    /\ NoBuilder
    /\ variables = InitialVariables
    /\ server = NewServer
    /\ vop = [name |-> "__init__", names |-> Absent, vars |-> Absent]
    /\ vret = None
    /\ verr = NoError
    /\ run = NoRun(InitialVariables)
    /\ service \in {"VariableSource", "VariableServer"}
    /\ checkpoint = FALSE
    /\ checkpointer = Absent
    /\ rpc = "idle"
    /\ sleeps = 0
    /\ saves = 0
    /\ rerr = NoError
    /\ phase = IF service = "VariableServer" THEN "serving" ELSE "none"
    /\ slog = IF service = "VariableServer" THEN VariableServerInit ELSE <<>>
    /\ clients = [c \in Clients |-> Waiting]
    /\ requested = 0
    /\ NoExtras

ClientFrame == UNCHANGED <<bvars, lvars, rvars, extras, vop, vret, verr, run>>

(* A client calls add_to_variables(["count"], {"count": delta}). *)
ClientCall ==
    /\ service # "none"
    /\ \E c \in Clients, delta \in 1..MaxDelta :
        /\ At(c, "idle")
        /\ clients' = [clients EXCEPT ![c] =
                          [pc |-> IF service = "VariableServer"
                                  THEN "stash_names" ELSE "assign_add",
                           delta |-> delta]]
        /\ requested' = requested + delta
        /\ UNCHANGED <<variables, server>>
        /\ ClientFrame

(* VariableSource.add_to_variables: the loop over the client's own names   *)
(* and vars; assign_add on the stored tf.Variable is one step.             *)
ClientAssignAdd ==
    /\ service = "VariableSource"
    /\ \E c \in Clients :
        /\ At(c, "assign_add")
        /\ variables' = add_to_variables(variables, CountOnly,
                                         DeltaArg(clients[c].delta)).vs
        /\ Goto(c, "returned")
        /\ UNCHANGED <<server, requested>>
        /\ ClientFrame

(* VariableServer.add_to_variables: self._names = names *)
ClientStashNames ==
    /\ service = "VariableServer"
    /\ \E c \in Clients :
        /\ At(c, "stash_names")
        /\ server' = [server EXCEPT !._names = CountOnly]
        /\ Goto(c, "stash_vars")
        /\ UNCHANGED <<variables, requested>>
        /\ ClientFrame

(* VariableServer.add_to_variables: self._vars = vars *)
ClientStashVars ==
    /\ service = "VariableServer"
    /\ \E c \in Clients :
        /\ At(c, "stash_vars")
        /\ server' = [server EXCEPT !._vars = DeltaArg(clients[c].delta)]
        /\ Goto(c, "work")
        /\ UNCHANGED <<variables, requested>>
        /\ ClientFrame

(* VariableServer.add_to_variables: the three hooks, the middle one adding *)
(* what the server's attributes hold when it runs.                         *)
ClientWork ==
    /\ service = "VariableServer"
    /\ \E c \in Clients :
        /\ At(c, "work")
        /\ variables' = on_variables_add_to_server_variables(variables, server).vs
        /\ Goto(c, "returned")
        /\ UNCHANGED <<server, requested>>
        /\ ClientFrame

ConcNext ==
    \/ ClientCall
    \/ ClientAssignAdd
    \/ ClientStashNames
    \/ ClientStashVars
    \/ ClientWork

(* ---------------------- the executor's variable client ----------------- *)

MaxSteps == 6     \* environment steps the executor is followed through
MaxPeriod == 2    \* largest executor_variable_update_period

(* What a fetch of the client's keys brings back from the server. *)
Fetched(vs) == get_variables(vs, CountOnly).ret

(* A copy of the parameters: its value, the step at which its fetch was    *)
(* issued and the latest step at which the server still held the value.    *)
Copy(value, issued, held) == [value |-> value, issued |-> issued, held |-> held]

(* A fetch: issued and, once the server has answered, done with a value. *)
Fetch(issued) == [issued |-> issued, done |-> FALSE, value |-> Absent, held |-> 0]

(* The copy as the executor finds it at step `step`. *)
Touch(x, vs, step) ==
    IF x # Absent /\ x.value = Fetched(vs) THEN [x EXCEPT !.held = step] ELSE x

(* An executor with its variable client, acting against a new collection:  *)
(* the client was filled when the executor was made.                       *)
PullInit ==
    /\ NoBuilder
    /\ variables = InitialVariables
    /\ server = NewServer
    /\ vop = [name |-> "__init__", names |-> Absent, vars |-> Absent]
    /\ vret = None
    /\ verr = NoError
    /\ run = NoRun(InitialVariables)
    /\ NoServer
    /\ NoRunning
    /\ NoClients
    /\ NoCheckpoint
    /\ estep = 0
    /\ period \in 1..MaxPeriod
    /\ counter = 0
    /\ cache = Copy(Fetched(variables), 0, 0)
    /\ future = Absent
    /\ waited = 0
    /\ NoTable
    /\ NoTables
    /\ NoObserver
    /\ NoWrapper
    /\ NoConversion

PullFrame == UNCHANGED <<bvars, lvars, rvars, cvars, kvars, tvars, pvars, ovars, wvars, dvars, server, vop, vret, verr, run>>

(* The trainer's client pushes after an optimizer step. *)
TrainerPush ==
    /\ cache # Absent
    /\ LET r == add_to_variables(variables, CountOnly, DeltaArg(1)) IN
        /\ Bounded(r.vs)
        /\ variables' = r.vs
    /\ UNCHANGED evars
    /\ PullFrame

(* The server answers the outstanding fetch with what it holds. *)
ServerReply ==
    /\ future # Absent
    /\ ~future.done
    /\ future' = [future EXCEPT !.done = TRUE, !.value = Fetched(variables),
                                !.held = estep]
    /\ UNCHANGED <<variables, estep, period, counter, cache, waited>>
    /\ PullFrame

(* A client that waits for the answer of its fetch before the next step. *)
ExecutorStepBlocking ==
    /\ cache # Absent
    /\ estep < MaxSteps
    /\ future # Absent => future.done
    /\ LET counted == IF counter < period THEN counter + 1 ELSE counter
           issue == counted >= period /\ future = Absent
           pending == IF issue THEN Fetch(estep + 1) ELSE future
           copy == pending # Absent /\ pending.done
       IN  /\ estep' = estep + 1
           /\ counter' = IF issue THEN 0 ELSE counted
           /\ cache' = Touch(IF copy
                             THEN Copy(pending.value, pending.issued, pending.held)
                             ELSE cache,
                             variables, estep + 1)
           /\ future' = IF copy THEN Absent
                        ELSE IF pending # Absent /\ pending.done
                        THEN Touch(pending, variables, estep + 1) ELSE pending
           /\ waited' = IF copy THEN estep + 1 - pending.issued
                        ELSE IF future # Absent THEN waited + 1 ELSE waited
    /\ UNCHANGED <<variables, period>>
    /\ PullFrame

(* One environment step of the executor: its client counts the step,       *)
(* issues a fetch when the period is reached and none is outstanding,      *)
(* takes over a fetch that is done, and the executor acts on the cache.    *)
ExecutorStep ==
    /\ cache # Absent
    /\ estep < MaxSteps
    /\ LET counted == IF counter < period THEN counter + 1 ELSE counter
           issue == counted >= period /\ future = Absent
           pending == IF issue THEN Fetch(estep + 1) ELSE future
           copy == pending # Absent /\ pending.done
       IN  /\ estep' = estep + 1
           /\ counter' = IF issue THEN 0 ELSE counted
           /\ cache' = Touch(IF copy
                             THEN Copy(pending.value, pending.issued, pending.held)
                             ELSE cache,
                             variables, estep + 1)
           /\ future' = IF copy THEN Absent
                        ELSE IF pending # Absent /\ pending.done
                        THEN Touch(pending, variables, estep + 1) ELSE pending
           /\ waited' = IF copy THEN estep + 1 - pending.issued
                        ELSE IF future # Absent THEN waited + 1 ELSE waited
    /\ UNCHANGED <<variables, period>>
    /\ PullFrame

PullNext == TrainerPush \/ ServerReply \/ ExecutorStep

(* ---------------------------- the replay table ------------------------ *)

NumExecutors == 2    \* executors inserting into one table
MaxMinSize == 2      \* largest min_replay_size
MaxRatio == 2        \* largest samples_per_insert
MaxBuffer == 2       \* largest error buffer of the rate limiter
MaxInserts == 4      \* items inserted into the table in all

Executors == 1..NumExecutors

(* The rate limiter: the floor and the sample-to-insert ratio with its     *)
(* tolerance on either side.                                               *)
RateLimiter(min_size, ratio, buffer) ==
    [min_size_to_sample |-> min_size, samples_per_insert |-> ratio,
     min_diff |-> min_size * ratio - buffer, max_diff |-> min_size * ratio + buffer]

(* reverb.Table(name, sampler, remover, max_size, rate_limiter, signature) *)
Table(max_size, rate_limiter) ==
    [max_size |-> max_size, rate_limiter |-> rate_limiter,
     size |-> 0, inserts |-> 0, samples |-> 0]

(* A limiter without the floor. *)
CanSampleNoFloor(t) ==
    t.size > 0
    /\ t.inserts * t.rate_limiter.samples_per_insert - (t.samples + 1)
         >= t.rate_limiter.min_diff - t.rate_limiter.min_size_to_sample
                                        * t.rate_limiter.samples_per_insert

(* The limiter lets a sample through: the floor is reached and the         *)
(* samples taken stay within the ratio.                                    *)
CanSample(t) ==
    t.size >= t.rate_limiter.min_size_to_sample
    /\ t.inserts * t.rate_limiter.samples_per_insert - (t.samples + 1)
         >= t.rate_limiter.min_diff

(* The limiter lets an insert through: below the floor always, beyond it   *)
(* while the inserts stay within the ratio.                                *)
CanInsert(t) ==
    t.size + 1 <= t.rate_limiter.min_size_to_sample
    \/ (t.inserts + 1) * t.rate_limiter.samples_per_insert - t.samples
         <= t.rate_limiter.max_diff

(* A table built with a rate limiter of some min_replay_size, empty; the   *)
(* trainer's iterator made and not yet asked for a sample.                 *)
TableInit ==
    /\ NoBuilder
    /\ variables = InitialVariables
    /\ server = NewServer
    /\ vop = [name |-> "__init__", names |-> Absent, vars |-> Absent]
    /\ vret = None
    /\ verr = NoError
    /\ run = NoRun(InitialVariables)
    /\ NoServer
    /\ NoRunning
    /\ NoClients
    /\ NoCheckpoint
    /\ NoExecutor
    /\ \E min_size \in 1..MaxMinSize, ratio \in 1..MaxRatio, buffer \in 1..MaxBuffer,
          max_size \in MaxMinSize..MaxMinSize + 1 :
        table = Table(max_size, RateLimiter(min_size, ratio, buffer))
    /\ added = [e \in Executors |-> 0]
    /\ iterator = [pc |-> "made", yielded |-> 0]
    /\ NoTables
    /\ NoObserver
    /\ NoWrapper
    /\ NoConversion

TableFrame == UNCHANGED <<bvars, svars, lvars, rvars, cvars, kvars, evars, pvars, ovars, wvars, dvars>>

(* An executor's adder inserts an item; the remover makes room in a full   *)
(* table; the insert waits while the limiter does not let it through.      *)
ExecutorInsert ==
    /\ table # Absent
    /\ table.inserts < MaxInserts
    /\ CanInsert(table)
    /\ \E e \in Executors :
        /\ added' = [added EXCEPT ![e] = @ + 1]
        /\ table' = [table EXCEPT !.inserts = @ + 1,
                                  !.size = IF @ < table.max_size THEN @ + 1 ELSE @]
        /\ UNCHANGED iterator
        /\ TableFrame

(* The trainer asks its iterator for the next sample. *)
IteratorNext ==
    /\ iterator # Absent
    /\ iterator.pc # "waiting"
    /\ iterator' = [iterator EXCEPT !.pc = "waiting"]
    /\ UNCHANGED <<table, added>>
    /\ TableFrame

(* The table yields a sample to the waiting iterator. *)
TableSample ==
    /\ iterator # Absent
    /\ iterator.pc = "waiting"
    /\ CanSample(table)
    /\ table' = [table EXCEPT !.samples = @ + 1]
    /\ iterator' = [pc |-> "yielded", yielded |-> iterator.yielded + 1]
    /\ UNCHANGED added
    /\ TableFrame

TableNext == ExecutorInsert \/ IteratorNext \/ TableSample

(* ------------------------- the Tables components ----------------------- *)

MaxTableSize == 2    \* largest max_size a component is given
MaxNetworks == 2     \* most networks in one entry of table_network_config

(* The agents of the system, as sort_str_num orders them. *)
AgentOrder == <<"agent_0", "agent_1">>

Agents == Range(AgentOrder)

(* sort_str_num(keys): the keys in order. *)
sort_str_num(keys) == SelectSeq(AgentOrder, LAMBDA a : a \in keys)

(* An agent's spec, and a dict of them. *)
AgentSpec(a) == [k |-> "spec", of |-> a]

SpecsOf(as) == Dict([a \in as |-> AgentSpec(a)])

Converted(value) == [ret |-> value, err |-> NoError]

Failed(kind, what) == [ret |-> Absent, err |-> Raised(kind, what, 0)]

(* sort_str_num(self.agent_net_keys.keys())[:num_networks] *)
FirstAgents(self, num_networks) ==
    LET sorted == sort_str_num(DOMAIN self.agent_net_keys.m) IN
    SubSeq(sorted, 1, IF num_networks < Len(sorted) THEN num_networks ELSE Len(sorted))

(* OffPolicyReplayTables._covert_specs(spec, num_networks). *)
RECURSIVE covert_specs(_, _, _)
covert_specs(self, spec, num_networks) ==
    IF spec.k # "dict" THEN Converted(spec)
    ELSE IF self.agent_net_keys = Absent
    THEN Failed("AttributeError", "agent_net_keys")
    ELSE LET agents == FirstAgents(self, num_networks) IN
         IF agents = <<>> THEN Failed("IndexError", "agents")
         ELSE IF agents[1] \in DOMAIN spec.m
         THEN IF \A j \in DOMAIN agents : agents[j] \in DOMAIN spec.m
              THEN Converted(Dict([a \in Range(agents) |-> spec.m[a]]))
              ELSE Failed("KeyError", "agent")
         ELSE LET each == [key \in DOMAIN spec.m |->
                              covert_specs(self, spec.m[key], num_networks)]
                  failing == {key \in DOMAIN each : each[key].err # NoError}
              IN  IF failing # {}
                  THEN [ret |-> Absent, err |-> each[CHOOSE key \in failing : TRUE].err]
                  ELSE Converted(Dict([key \in DOMAIN each |-> each[key].ret]))

(* Tables.__init__(name, sampler, remover, max_size, max_times_sampled):  *)
(* the attributes it assigns; the two its subclass reads besides are not   *)
(* among them.                                                             *)
Tables_init(name, sampler, remover, max_size, max_times_sampled) ==
    [name |-> name, sampler |-> sampler, remover |-> remover, max_size |-> max_size,
     max_times_sampled |-> max_times_sampled,
     agent_net_keys |-> Absent, replay_table_name |-> Absent]

(* reverb.Table(name, sampler, remover, max_size, rate_limiter, signature): *)
(* the library refuses a max_size below 1.                                  *)
reverb_Table(name, sampler, remover, max_size, rate_limiter, signature) ==
    IF max_size < 1 THEN Failed("ValueError", "max_size")
    ELSE Converted([name |-> name, sampler |-> sampler, remover |-> remover,
                    max_size |-> max_size, rate_limiter |-> rate_limiter,
                    signature |-> signature])

(* One iteration of on_building_tables_make_tables' loop: the table of     *)
(* trainer_id, or the exception raised on the way to it.                   *)
TableOfTrainer(self, b, trainer_id) ==
    LET num_networks == b.table_network_config[trainer_id + 1]
        specs == covert_specs(self, b.environment_spec.specs, num_networks)
        inner == IF b.environment_spec.extra_specs = None
                 THEN Converted(None)
                 ELSE covert_specs(self, b.environment_spec.extra_specs, num_networks)
        extra_specs == covert_specs(self, b.extra_specs, num_networks)
    IN  IF specs.err # NoError THEN specs
        ELSE IF inner.err # NoError THEN inner
        ELSE IF extra_specs.err # NoError THEN extra_specs
        ELSE IF self.replay_table_name = Absent
        THEN Failed("AttributeError", "replay_table_name")
        ELSE reverb_Table(<<self.replay_table_name, trainer_id>>, self.sampler,
                          self.remover, self.max_size, "rate_limiter_fn()",
                          [specs |-> specs.ret, keys |-> sort_str_num(DOMAIN specs.ret.m),
                           extra_specs |-> inner.ret, extras |-> extra_specs.ret])

(* OffPolicyReplayTables.on_building_tables_make_tables(builder), table by *)
(* table: builder.replay_tables is assigned after the last.                *)
RECURSIVE TablesFrom(_, _, _, _)
TablesFrom(self, b, trainer_id, replay_tables) ==
    IF trainer_id >= Len(b.table_network_config)
    THEN [b |-> [b EXCEPT !.replay_tables = [k |-> "tables", tables |-> replay_tables]],
          err |-> NoError]
    ELSE LET r == TableOfTrainer(self, b, trainer_id) IN
         IF r.err # NoError THEN [b |-> b, err |-> r.err]
         ELSE TablesFrom(self, b, trainer_id + 1, Append(replay_tables, r.ret))

MaxSizes == (0 - 1)..MaxTableSize

NetworkConfigs == UNION {[1..n -> 1..MaxNetworks] : n \in 0..NumTrainers}

ExtraSpecs == {Dict(<<>>)} \cup {Dict("core_states" :> SpecsOf(as)) : as \in SUBSET Agents}

(* The builder as the table hook finds it, no component constructed yet. *)
TablesInit ==
    /\ NoBuilder
    /\ variables = InitialVariables
    /\ server = NewServer
    /\ vop = [name |-> "__init__", names |-> Absent, vars |-> Absent]
    /\ vret = None
    /\ verr = NoError
    /\ run = NoRun(InitialVariables)
    /\ NoServer
    /\ NoRunning
    /\ NoClients
    /\ NoCheckpoint
    /\ NoExecutor
    /\ NoTable
    /\ NoObserver
    /\ NoWrapper
    /\ NoConversion
    /\ tcomp = Absent
    /\ \E config \in NetworkConfigs, as \in SUBSET Agents,
          inner \in {None, Dict("core_states" :> SpecsOf(Agents))},
          outer \in ExtraSpecs :
        tbuild = [table_network_config |-> config,
                  environment_spec |-> [specs |-> SpecsOf(as), extra_specs |-> inner],
                  extra_specs |-> outer,
                  replay_tables |-> Absent]
    /\ top = "new"
    /\ terr = NoError

TablesFrame == UNCHANGED <<bvars, svars, lvars, rvars, cvars, kvars, evars, tvars, ovars, wvars, dvars>>

(* OffPolicyReplayTables(name, sampler, remover, max_size) *)
TablesConstruct ==
    /\ top = "new"
    /\ \E max_size \in MaxSizes :
        tcomp' = Tables_init("trainer", "Uniform", "Fifo", max_size, 0)
    /\ top' = "__init__"
    /\ UNCHANGED <<tbuild, terr>>
    /\ TablesFrame

(* Code outside the class gives the component the attributes its hook      *)
(* reads and its constructor does not assign.                              *)
TablesSetAttributes ==
    /\ top = "__init__"
    /\ \E as \in SUBSET Agents, named \in BOOLEAN :
        tcomp' = [tcomp EXCEPT
                    !.agent_net_keys = Dict([a \in as |-> "network_0"]),
                    !.replay_table_name = IF named THEN Str("trainer") ELSE Absent]
    /\ top' = "setattr"
    /\ UNCHANGED <<tbuild, terr>>
    /\ TablesFrame

(* The component's table hook is called on the builder. *)
TablesMakeTables ==
    /\ top \in {"__init__", "setattr"}
    /\ LET r == TablesFrom(tcomp, tbuild, 0, <<>>) IN
        /\ tbuild' = r.b
        /\ terr' = r.err
    /\ top' = "on_building_tables_make_tables"
    /\ UNCHANGED tcomp
    /\ TablesFrame

TablesNext == TablesConstruct \/ TablesSetAttributes \/ TablesMakeTables

(* ----------------------------- DiscreteToBounded ----------------------- *)

MaxValues == 3    \* largest num_values of a discrete action spec

(* float("-inf"), float("inf") and a finite bound. *)
Inf(sign) == [k |-> "inf", sign |-> sign]
Num(n) == [k |-> "float", v |-> n]

Repeat(x, n) == [j \in 1..n |-> x]

(* acme.specs: DiscreteArray(num_values), BoundedArray(...) and Array(...). *)
DiscreteArray(num_values) ==
    [type |-> "DiscreteArray", num_values |-> num_values, dtype |-> "int32",
     name |-> "action"]
BoundedArray(shape, minimum, maximum, dtype, name) ==
    [type |-> "BoundedArray", shape |-> shape, minimum |-> minimum,
     maximum |-> maximum, dtype |-> dtype, name |-> name]
ArraySpec(shape, dtype, name) ==
    [type |-> "Array", shape |-> shape, dtype |-> dtype, name |-> name]

(* EnvironmentSpec(observations, actions, rewards, discounts) *)
EnvironmentSpec(observations, actions, rewards, discounts) ==
    [observations |-> observations, actions |-> actions, rewards |-> rewards,
     discounts |-> discounts]

(* specs.MAEnvironmentSpec: its _keys and its _specs. *)
MAEnvironmentSpec(keys, agent_specs) == [keys |-> keys, specs |-> agent_specs]

(* What one call leaves: the spec it was given, as it is afterwards, and   *)
(* the spec it returned.                                                   *)
ConversionOf(environment_spec, value) == [given |-> environment_spec, ret |-> value]

(* The new action spec of an agent with a discrete action spec. *)
new_act_spec(num_actions) ==
    BoundedArray(<<num_actions>>, Repeat(Inf(0 - 1), num_actions),
                 Repeat(Inf(1), num_actions), "float32", "actions")

(* The loop over env_adder_spec._keys, from position i on. *)
RECURSIVE ConvertFrom(_, _)
ConvertFrom(env_adder_spec, i) ==
    IF i > Len(env_adder_spec.keys) THEN env_adder_spec
    ELSE LET key == env_adder_spec.keys[i]
             agent_spec == env_adder_spec.specs[key]
         IN  IF agent_spec.actions.type = "DiscreteArray"
             THEN ConvertFrom(
                    [env_adder_spec EXCEPT !.specs[key] =
                        EnvironmentSpec(agent_spec.observations,
                                        new_act_spec(agent_spec.actions.num_values),
                                        agent_spec.rewards,
                                        agent_spec.discounts)],
                    i + 1)
             ELSE ConvertFrom(env_adder_spec, i + 1)

(* A conversion that works on the spec it was given, not on a copy. *)
convert_discrete_to_bounded_in_place(environment_spec) ==
    ConversionOf(ConvertFrom(environment_spec, 1), ConvertFrom(environment_spec, 1))

(* DiscreteToBounded._convert_discrete_to_bounded(environment_spec) *)
convert_discrete_to_bounded(environment_spec) ==
    LET env_adder_spec == environment_spec   \* copy.deepcopy: an equal, separate object
    IN  ConversionOf(environment_spec, ConvertFrom(env_adder_spec, 1))

(* The action specs an agent of the environment may have. *)
ActionSpecs ==
    {DiscreteArray(n) : n \in 1..MaxValues}
        \cup {BoundedArray(<<2>>, Repeat(Num(0), 2), Repeat(Num(1), 2), "float32", "action"),
              new_act_spec(2)}

ObservationSpecs == {ArraySpec(<<n>>, "float32", "observation") : n \in 1..2}

AgentSpecs ==
    {EnvironmentSpec(o, a, ArraySpec(<<>>, "float32", "reward"),
                     BoundedArray(<<>>, Num(0), Num(1), "float32", "discount")) :
        o \in ObservationSpecs, a \in ActionSpecs}

ConversionInit ==
    /\ NoBuilder
    /\ variables = InitialVariables
    /\ server = NewServer
    /\ vop = [name |-> "__init__", names |-> Absent, vars |-> Absent]
    /\ vret = None
    /\ verr = NoError
    /\ run = NoRun(InitialVariables)
    /\ NoServer
    /\ NoRunning
    /\ NoClients
    /\ NoCheckpoint
    /\ NoExecutor
    /\ NoTable
    /\ NoTables
    /\ NoObserver
    /\ NoWrapper
    /\ \E agent_specs \in [Agents -> AgentSpecs] :
        envspec = MAEnvironmentSpec(AgentOrder, agent_specs)
    /\ envspec0 = envspec
    /\ converted = Absent
    /\ reconverted = Absent

ConversionFrame == UNCHANGED <<bvars, svars, lvars, rvars, cvars, kvars, evars, tvars, pvars, ovars, wvars>>

(* The caller converts the spec it holds. *)
Convert ==
    /\ converted = Absent
    /\ LET r == convert_discrete_to_bounded(envspec) IN
        /\ envspec' = r.given
        /\ converted' = r.ret
    /\ UNCHANGED <<envspec0, reconverted>>
    /\ ConversionFrame

(* The caller converts the spec the first conversion returned. *)
ConvertAgain ==
    /\ converted # Absent /\ reconverted = Absent
    /\ LET r == convert_discrete_to_bounded(converted) IN
        /\ converted' = r.given
        /\ reconverted' = r.ret
    /\ UNCHANGED <<envspec, envspec0>>
    /\ ConversionFrame

ConversionNext == Convert \/ ConvertAgain

(* ------------------------ the PettingZoo wrappers ---------------------- *)

MaxCalls == 4     \* reset() and step() calls made on one wrapper
MaxReward == 1    \* largest reward the wrapped environment hands out

possible_agents == Agents

(* dm_env.TimeStep(step_type, reward, discount, observation) *)
TimeStep(step_type, reward, discount, observation) ==
    [step_type |-> step_type, reward |-> reward, discount |-> discount,
     observation |-> observation]

(* mava.utils.wrapper_utils.parameterized_restart: a FIRST timestep. *)
parameterized_restart(reward, discount, observation) ==
    TimeStep("FIRST", reward, discount, observation)

(* convert_np_type(dtype, value): the value as a numpy scalar; every spec    *)
(* the wrappers convert to has dtype float32.                               *)
convert_np_type(value) == [k |-> "float32", v |-> value]

(* The wrapped environment.  started: reset() has been called; clock: its   *)
(* transitions since; dones and selection: the agents' done flags and       *)
(* agent_selection of a sequential environment; env_done: its attribute of  *)
(* that name; given: the argument of its last step(); misused: it was       *)
(* stepped before a reset.                                                  *)
NewEnvironment(done) ==
    [started |-> FALSE, clock |-> 0, dones |-> [a \in possible_agents |-> FALSE],
     selection |-> 1, env_done |-> done, rewards |-> Absent, given |-> Absent,
     misused |-> FALSE]

(* What the environment makes of one step: which agents it ends, whether   *)
(* it reports env_done, and the rewards it hands out (none: an empty dict). *)
Outcomes ==
    [ends : SUBSET possible_agents, env_done : BOOLEAN,
     rewards : {Absent} \cup {[a \in possible_agents |-> r] : r \in 0..MaxReward}]

(* environment.reset() *)
env_reset(e) ==
    [e EXCEPT !.started = TRUE, !.clock = 0,
              !.dones = [a \in possible_agents |-> FALSE],
              !.selection = 1, !.env_done = FALSE, !.rewards = Absent,
              !.given = Absent]

(* environment.step(action) with the outcome the environment decides on. *)
env_step(e, action, out) ==
    [e EXCEPT !.clock = e.clock + 1,
              !.dones = [a \in possible_agents |-> e.dones[a] \/ a \in out.ends],
              !.selection = (e.selection % Len(AgentOrder)) + 1,
              !.env_done = out.env_done,
              !.rewards = out.rewards,
              !.given = action,
              !.misused = e.misused \/ ~e.started]

(* environment.last() of a sequential environment, for the agent selected. *)
env_last(e) ==
    [observe |-> <<AgentOrder[e.selection], e.clock>>,
     reward |-> IF e.rewards = Absent THEN 0 ELSE e.rewards[AgentOrder[e.selection]],
     done |-> e.dones[AgentOrder[e.selection]]]

(* What a call leaves: the wrapper, the environment and the return value. *)
Returned(self, e, value) == [self |-> self, env |-> e, ret |-> value]

(* _convert_observation / _convert_observations: observation and terminal. *)
convert_observation(observe, done) == [observation |-> observe, terminal |-> done]

(* A constructor that leaves no reset pending. *)
Wrapper_init_no_reset(kind) ==
    [kind |-> kind, _reset_next_step |-> FALSE, _step_type |-> Absent,
     _discounts |-> Absent]

(* PettingZooAECEnvWrapper.__init__ / PettingZooParallelEnvWrapper.__init__ *)
(* _discounts is the parallel wrapper's attribute of that name and the      *)
(* sequential wrapper's _discount; neither constructor assigns it.          *)
Wrapper_init(kind) ==
    [kind |-> kind, _reset_next_step |-> TRUE, _step_type |-> Absent,
     _discounts |-> Absent]

(* PettingZooParallelEnvWrapper.reset() *)
parallel_reset(self, e) ==
    LET e1 == env_reset(e)
        discounts == [a \in possible_agents |-> convert_np_type(1)]
        observations ==
            [a \in possible_agents |-> convert_observation(<<a, e1.clock>>, FALSE)]
        rewards == [a \in possible_agents |-> convert_np_type(0)]
    IN  Returned([self EXCEPT !._reset_next_step = FALSE, !._step_type = "FIRST",
                              !._discounts = discounts],
                 e1, parameterized_restart(rewards, discounts, observations))

(* A step that leaves the next call to step a finished episode. *)
parallel_step_no_reset(self, e, actions, out) ==
    IF self._reset_next_step THEN parallel_reset(self, e)
    ELSE LET e1 == env_step(e, actions, out)
             type == IF e1.env_done THEN "LAST" ELSE "MID"
         IN  Returned([self EXCEPT !._step_type = type], e1,
                      TimeStep(type,
                               [a \in possible_agents |-> convert_np_type(0)],
                               self._discounts,
                               [a \in possible_agents |->
                                   convert_observation(<<a, e1.clock>>, e1.dones[a])]))

(* A step that ends the episode with a discount of 0. *)
parallel_step_terminating(self, e, actions, out) ==
    IF self._reset_next_step THEN parallel_reset(self, e)
    ELSE LET e1 == env_step(e, actions, out)
             type == IF e1.env_done THEN "LAST" ELSE "MID"
         IN  Returned([self EXCEPT !._step_type = type,
                                   !._reset_next_step = e1.env_done],
                      e1,
                      TimeStep(type,
                               [a \in possible_agents |-> convert_np_type(0)],
                               IF e1.env_done THEN [a \in possible_agents |-> convert_np_type(0)]
                               ELSE self._discounts,
                               [a \in possible_agents |->
                                   convert_observation(<<a, e1.clock>>, FALSE)]))

(* PettingZooParallelEnvWrapper.step(actions) *)
parallel_step(self, e, actions, out) ==
    IF self._reset_next_step THEN parallel_reset(self, e)
    ELSE LET e1 == env_step(e, actions, out)
             rewards == IF out.rewards = Absent
                        THEN [a \in possible_agents |-> convert_np_type(0)]
                        ELSE [a \in possible_agents |-> convert_np_type(out.rewards[a])]
             observations ==
                 [a \in possible_agents |->
                     convert_observation(<<a, e1.clock>>, e1.dones[a])]
             type == IF e1.env_done THEN "LAST" ELSE "MID"
         IN  Returned([self EXCEPT !._step_type = type,
                                   !._reset_next_step =
                                       IF e1.env_done THEN TRUE ELSE @],
                      e1, TimeStep(type, rewards, self._discounts, observations))

(* PettingZooAECEnvWrapper.reset() *)
aec_reset(self, e) ==
    LET e1 == env_reset(e)
        last == env_last(e1)
        discount == convert_np_type(1)
    IN  Returned([self EXCEPT !._reset_next_step = FALSE, !._step_type = "FIRST",
                              !._discounts = discount],
                 e1,
                 parameterized_restart(convert_np_type(0), discount,
                                       convert_observation(last.observe, last.done)))

(* A step that asks for a reset whenever it returns LAST. *)
aec_step_reset_on_last(self, e, action, out) ==
    IF self._reset_next_step THEN aec_reset(self, e)
    ELSE LET before_ == env_last(e)
             e1 == env_step(e, IF before_.done THEN None ELSE action, out)
             last == IF before_.done THEN before_ ELSE env_last(e1)
             type == IF before_.done THEN "LAST" ELSE "MID"
         IN  Returned([self EXCEPT !._step_type = type,
                                   !._reset_next_step = (type = "LAST")],
                      e1,
                      TimeStep(type, convert_np_type(last.reward), self._discounts,
                               convert_observation(last.observe, last.done)))

(* PettingZooAECEnvWrapper.step(action) *)
aec_step(self, e, action, out) ==
    IF self._reset_next_step THEN aec_reset(self, e)
    ELSE LET before_ == env_last(e)
             e1 == env_step(e, IF before_.done THEN None ELSE action, out)
             last == IF before_.done THEN before_ ELSE env_last(e1)
             type == IF before_.done THEN "LAST" ELSE "MID"
         IN  Returned([self EXCEPT !._step_type = type,
                                   !._reset_next_step =
                                       IF e1.env_done THEN TRUE ELSE @],
                      e1,
                      TimeStep(type, convert_np_type(last.reward), self._discounts,
                               convert_observation(last.observe, last.done)))

WrapperKinds == {"parallel", "aec"}

WrapperInit ==
    /\ NoBuilder
    /\ variables = InitialVariables
    /\ server = NewServer
    /\ vop = [name |-> "__init__", names |-> Absent, vars |-> Absent]
    /\ vret = None
    /\ verr = NoError
    /\ run = NoRun(InitialVariables)
    /\ NoServer
    /\ NoRunning
    /\ NoClients
    /\ NoCheckpoint
    /\ NoExecutor
    /\ NoTable
    /\ NoTables
    /\ NoObserver
    /\ \E kind \in WrapperKinds : wrapper = Wrapper_init(kind)
    /\ \E done \in BOOLEAN : environment = NewEnvironment(done)
    /\ wcall = [name |-> "__init__", pending |-> FALSE, action |-> Absent,
                stepped |-> FALSE, was |-> Absent]
    /\ timestep = Absent
    /\ wlog = <<>>
    /\ NoConversion

WrapperFrame == UNCHANGED <<bvars, svars, lvars, rvars, cvars, kvars, evars, tvars, pvars, ovars, dvars>>

(* The call `name` with `action` was made and left r. *)
WrapperCalled(name, action, r) ==
    /\ wrapper' = r.self
    /\ environment' = r.env
    /\ timestep' = r.ret
    /\ wcall' = [name |-> name, pending |-> wrapper._reset_next_step,
                 action |-> action, stepped |-> r.env.clock = environment.clock + 1,
                 was |-> environment]
    /\ wlog' = Append(wlog, r.ret.step_type)
    /\ WrapperFrame

ParallelReset ==
    /\ wrapper.kind = "parallel" /\ Len(wlog) < MaxCalls
    /\ WrapperCalled("reset", Absent, parallel_reset(wrapper, environment))

ParallelStep ==
    /\ wrapper.kind = "parallel" /\ Len(wlog) < MaxCalls
    /\ \E i \in Inputs, out \in Outcomes :
        WrapperCalled("step", In("actions", i),
                      parallel_step(wrapper, environment, In("actions", i), out))

AECReset ==
    /\ wrapper.kind = "aec" /\ Len(wlog) < MaxCalls
    /\ WrapperCalled("reset", Absent, aec_reset(wrapper, environment))

AECStep ==
    /\ wrapper.kind = "aec" /\ Len(wlog) < MaxCalls
    /\ \E i \in Inputs, out \in Outcomes :
        /\ out.rewards # Absent
        /\ WrapperCalled("step", In("action", i),
                         aec_step(wrapper, environment, In("action", i), out))

WrapperNext == ParallelReset \/ ParallelStep \/ AECReset \/ AECStep

(* ------------------------- the Observer component --------------------- *)

MaxObserved == 3    \* Observer hooks invoked on one executor

(* `if x:` for None and for an object without __bool__ or __len__. *)
Truthy(x) == x # None

(* A call made on the adder. *)
AdderCall(method, args) == [method |-> method, args |-> args]

(* What a hook leaves: the adder's calls and the exception it raised. *)
HookResult(received, err) == [calls |-> received, err |-> err]

(* A hook that calls add_first on whatever executor._adder holds. *)
on_execution_observe_first_unguarded(ex, received) ==
    IF ex._adder = None
    THEN HookResult(received, Raised("hook", "on_execution_observe_first", 0))
    ELSE HookResult(Append(received,
                         AdderCall("add_first", <<ex._timestep, ex._extras>>)),
                  NoError)

(* Observer.on_execution_observe_first(executor) *)
on_execution_observe_first(ex, received) ==
    IF Truthy(ex._adder)
    THEN HookResult(Append(received,
                         AdderCall("add_first", <<ex._timestep, ex._extras>>)),
                  NoError)
    ELSE HookResult(received, NoError)

(* Observer.on_execution_observe(executor) *)
on_execution_observe(ex, received) ==
    IF Truthy(ex._adder)
    THEN HookResult(Append(received,
                         AdderCall("add", <<ex._actions, ex._next_timestep,
                                            ex._next_extras>>)),
                  NoError)
    ELSE HookResult(received, NoError)

(* An executor as make_executor's components assemble it: with the adder    *)
(* it was given, or None, and nothing observed yet.                        *)
NewExecutor(adder) ==
    [_adder |-> adder, _timestep |-> Absent, _extras |-> Absent,
     _actions |-> Absent, _next_timestep |-> Absent, _next_extras |-> Absent]

ObserveInit ==
    /\ NoBuilder
    /\ variables = InitialVariables
    /\ server = NewServer
    /\ vop = [name |-> "__init__", names |-> Absent, vars |-> Absent]
    /\ vret = None
    /\ verr = NoError
    /\ run = NoRun(InitialVariables)
    /\ NoServer
    /\ NoRunning
    /\ NoClients
    /\ NoCheckpoint
    /\ NoExecutor
    /\ NoTable
    /\ NoTables
    /\ executor \in {NewExecutor(None), NewExecutor(In("adder", 1))}
    /\ observed = <<>>
    /\ adder_calls = <<>>
    /\ oerr = NoError
    /\ NoWrapper
    /\ NoConversion

ObserveFrame == UNCHANGED <<bvars, svars, lvars, rvars, cvars, kvars, evars, tvars, pvars, wvars, dvars>>

(* The hook ran on the executor ex. *)
ObservedOn(hook, ex, r) ==
    /\ executor' = ex
    /\ observed' = Append(observed, [hook |-> hook, saw |-> ex])
    /\ adder_calls' = r.calls
    /\ oerr' = r.err
    /\ ObserveFrame

(* The executor observes the first timestep of an episode. *)
ExecutorObserveFirst ==
    /\ oerr = NoError /\ Len(observed) < MaxObserved
    /\ \E t \in Inputs, e \in Inputs :
        LET ex == [executor EXCEPT !._timestep = In("timestep", t),
                                   !._extras = In("extras", e)]
        IN  ObservedOn("on_execution_observe_first", ex,
                       on_execution_observe_first(ex, adder_calls))

(* The executor observes a step of the episode it is in. *)
ExecutorObserve ==
    /\ oerr = NoError /\ Len(observed) < MaxObserved
    /\ observed # <<>>
    /\ \E a \in Inputs, t \in Inputs, e \in Inputs :
        LET ex == [executor EXCEPT !._actions = In("actions", a),
                                   !._next_timestep = In("timestep", t),
                                   !._next_extras = In("extras", e)]
        IN  ObservedOn("on_execution_observe", ex,
                       on_execution_observe(ex, adder_calls))

ObserveNext == ExecutorObserveFirst \/ ExecutorObserve

(* ------------------------- the builder's actions ----------------------- *)

ComponentLists == UNION {[1..n -> Kinds] : n \in 0..MaxComponents}

Built == op \notin {"new", "init_failed"}

Finish(name, r, passed) ==
    /\ callargs' = Arguments(passed)
    /\ builder' = r.b
    /\ before' = builder
    /\ calls' = r.calls
    /\ ret' = r.ret
    /\ error' = r.err
    /\ op' = name
    /\ nops' = nops + 1
    /\ UNCHANGED <<components, callbacks, svars, others>>

Construct ==
    /\ op = "new"
    /\ LET r == init(StoredCallbacks(components)) IN
        /\ callbacks' = StoredCallbacks(components)
        /\ builder' = r.b
        /\ before' = builder
        /\ calls' = r.calls
        /\ ret' = r.ret
        /\ error' = r.err
        /\ op' = IF r.err = NoError THEN "__init__" ELSE "init_failed"
        /\ UNCHANGED <<components, nops, callargs, svars, others>>

(* What a caller passes as variable_source: the server make_variable_server *)
(* left on the builder, or another source of its own.                      *)
VariableSources(i) ==
    {In("variable_source", i)}
        \cup (IF Has(builder, "variable_server")
              THEN {builder["variable_server"]} ELSE {})

MakeReplayTables ==
    /\ Built /\ nops < MaxOps
    /\ \E i \in Inputs :
         Finish("make_replay_tables",
                make_replay_tables(callbacks, builder, In("environment_spec", i)),
                "_env_spec" :> In("environment_spec", i))

MakeDatasetIterator ==
    /\ Built /\ nops < MaxOps
    /\ \E i \in Inputs :
         Finish("make_dataset_iterator",
                make_dataset_iterator(callbacks, builder, In("replay_client", i),
                                      In("table_name", i)),
                ("_replay_client" :> In("replay_client", i))
                    @@ ("_table_name" :> In("table_name", i)))

MakeAdder ==
    /\ Built /\ nops < MaxOps
    /\ \E i \in Inputs :
         Finish("make_adder", make_adder(callbacks, builder, In("replay_client", i)),
                "_replay_client" :> In("replay_client", i))

MakeVariableServer ==
    /\ Built /\ nops < MaxOps
    /\ \E i \in Inputs :
         Finish("make_variable_server",
                make_variable_server(callbacks, builder, In("networks", i)),
                "_networks" :> In("networks", i))

MakeExecutor ==
    /\ Built /\ nops < MaxOps
    /\ \E i \in Inputs, optional \in BOOLEAN :
         \E variable_source \in VariableSources(i) \cup {None} :
         LET adder == IF optional THEN In("adder", i) ELSE None
         IN  Finish("make_executor",
                    make_executor(callbacks, builder, In("networks", i),
                                  In("policy_networks", i), adder, variable_source),
                    ("_networks" :> In("networks", i))
                        @@ ("_policy_networks" :> In("policy_networks", i))
                        @@ ("_adder" :> adder)
                        @@ ("_variable_source" :> variable_source))

MakeTrainer ==
    /\ Built /\ nops < MaxOps
    /\ \E i \in Inputs : \E variable_source \in VariableSources(i) :
         Finish("make_trainer",
                make_trainer(callbacks, builder, In("networks", i),
                             In("dataset", i), variable_source,
                             In("trainer_networks", i),
                             In("trainer_table_entry", i), None),
                ("_networks" :> In("networks", i))
                    @@ ("_dataset" :> In("dataset", i))
                    @@ ("_variable_source" :> variable_source)
                    @@ ("_trainer_networks" :> In("trainer_networks", i))
                    @@ ("_trainer_table_entry" :> In("trainer_table_entry", i))
                    @@ ("_logger" :> None))

Constructed ==
    /\ variables = InitialVariables
    /\ server = NewServer
    /\ vop = [name |-> "__init__", names |-> Absent, vars |-> Absent]
    /\ vret = None
    /\ verr = NoError
    /\ run = NoRun(InitialVariables)

Init ==
    /\ Constructed
    /\ components \in ComponentLists
    /\ callbacks = <<>>
    /\ builder = NewObject
    /\ before = NewObject
    /\ calls = <<>>
    /\ ret = Absent
    /\ error = NoError
    /\ op = "new"
    /\ nops = 0
    /\ callargs = NoArguments
    /\ Quiet

Next ==
    \/ Construct
    \/ MakeReplayTables
    \/ MakeDatasetIterator
    \/ MakeAdder
    \/ MakeVariableServer
    \/ MakeExecutor
    \/ MakeTrainer

vars == <<bvars, svars, others>>

(* The builder, with the variable collection left as constructed. *)
Spec == Init /\ [][Next]_vars

(* A VariableSource and its clients, with no builder at work. *)
VarSpec == VarInit /\ [][VarNext]_vars

(* run() of a VariableSource or of a VariableServer. *)
RunSpec == RunInit /\ [][RunNext]_vars

(* A VariableServer and its clients, with no builder at work. *)
ServerSpec == ServerInit /\ [][ServerNext]_vars

(* A VariableSource that is written to, checkpoints and is restarted. *)
CkptSpec == CkptInit /\ [][CkptNext]_vars

(* An executor acting on its variable client's cache while a trainer pushes. *)
PullSpec == PullInit /\ [][PullNext]_vars

(* Executors inserting into a replay table the trainer samples from. *)
TableSpec == TableInit /\ [][TableNext]_vars

(* A Tables component, constructed and asked for its tables. *)
TablesSpec == TablesInit /\ [][TablesNext]_vars

(* An executor whose observations pass through the Observer component. *)
ObserveSpec == ObserveInit /\ [][ObserveNext]_vars

(* Calls of reset() and step() on a PettingZoo wrapper. *)
WrapperSpec == WrapperInit /\ [][WrapperNext]_vars

(* An environment spec converted by DiscreteToBounded, once and again. *)
ConversionSpec == ConversionInit /\ [][ConversionNext]_vars

(* Clients of one service calling add_to_variables at the same time. *)
ConcSpec == ConcInit /\ [][ConcNext]_vars

(* ------------------------------ properties ----------------------------- *)

MakeOps ==
    {"make_replay_tables", "make_dataset_iterator", "make_adder",
     "make_variable_server", "make_executor", "make_trainer"}

(* The hooks an operation's body names, in the order it names them. *)
HooksOf(name) ==
    CASE name \in {"__init__", "init_failed"} ->
            <<"on_building_init_start", "on_building_init_end">>
      [] name = "make_replay_tables" ->
            <<"on_building_make_replay_table_start", "on_building_adder_signature",
              "on_building_rate_limiter", "on_building_make_tables",
              "on_building_make_replay_table_end">>
      [] name = "make_dataset_iterator" ->
            <<"on_building_make_dataset_iterator_start", "on_building_dataset",
              "on_building_make_dataset_iterator_end">>
      [] name = "make_adder" ->
            <<"on_building_make_adder_start", "on_building_adder_priority",
              "on_building_make_adder", "on_building_make_adder_end">>
      [] name = "make_variable_server" ->
            <<"on_building_make_variable_server_start",
              "on_building_variable_server",
              "on_building_make_variable_server_end">>
      [] name = "make_executor" ->
            <<"on_building_make_executor_start",
              "on_building_executor_variable_client", "on_building_executor",
              "on_building_make_executor_end">>
      [] name = "make_trainer" ->
            <<"on_building_make_trainer_start",
              "on_building_trainer_variable_client", "on_building_trainer",
              "on_building_trainer_statistics", "on_building_make_trainer_end">>
      [] OTHER -> <<>>

StartOf(name) == HooksOf(name)[1]
EndOf(name) == HooksOf(name)[Len(HooksOf(name))]
ArtifactOf(name) == ArtifactOfEnd(EndOf(name))

AllHooks == UNION {Defines(kind) : kind \in Kinds}

(* The components the last operation invoked for `hook`, in call order. *)
CompsOf(hook) ==
    LET of == SelectSeq(calls, LAMBDA c : c.hook = hook) IN
    [j \in DOMAIN of |-> of[j].comp]

(* The positions in the component list whose component defines `hook`. *)
Definers(hook) ==
    SelectSeq([i \in DOMAIN components |-> i],
              LAMBDA i : hook \in Defines(components[i]))

IsPrefix(s, t) == Len(s) <= Len(t) /\ \A j \in DOMAIN s : s[j] = t[j]

(* C1: for every hook an operation dispatches, the components defining it   *)
(* are invoked in the order of the component list given to the builder,     *)
(* each exactly once; a hook the operation does not dispatch invokes none,  *)
(* and an exception ends the walk at the component that raised it.          *)
C1_RegistrationOrder ==
    op # "new" =>
        \A hook \in AllHooks :
            /\ IsPrefix(CompsOf(hook), Definers(hook))
            /\ hook \notin Range(HooksOf(op)) => CompsOf(hook) = <<>>
            /\ (error = NoError /\ hook \in Range(HooksOf(op)))
                    => CompsOf(hook) = Definers(hook)

(* Two components defining the same hook were both invoked. *)
C1_Witness ==
    /\ op \in MakeOps
    /\ error = NoError
    /\ \E j, m \in DOMAIN calls :
          j < m /\ calls[j].hook = calls[m].hook /\ calls[j].comp < calls[m].comp

(* C2: a make_* operation invokes its ..._start hook before every other     *)
(* hook and its ..._end hook after every other hook, each once on every     *)
(* component defining it, and returns its artifact field as the ..._end     *)
(* hook left it.                                                            *)
C2_StartWorkEndReturn ==
    op \in MakeOps =>
        /\ \A j, m \in DOMAIN calls :
              (m < j /\ calls[j].hook = StartOf(op)) => calls[m].hook = StartOf(op)
        /\ \A j, m \in DOMAIN calls :
              (j < m /\ calls[j].hook = EndOf(op)) => calls[m].hook = EndOf(op)
        /\ error = NoError =>
              /\ CompsOf(StartOf(op)) = Definers(StartOf(op))
              /\ CompsOf(EndOf(op)) = Definers(EndOf(op))
              /\ ret = builder[ArtifactOf(op)]
              /\ Has(builder, ArtifactOf(op))

(* An ..._end hook changed the artifact that was then returned. *)
C2_Witness ==
    /\ op \in MakeOps
    /\ error = NoError
    /\ Len(calls) >= 3
    /\ calls[1].hook = StartOf(op)
    /\ calls[Len(calls)].hook = EndOf(op)
    /\ ret.k = "decorated"
    /\ calls[Len(calls)].saw[ArtifactOf(op)] # ret

Rank(hook) == CHOOSE j \in DOMAIN HooksOf("make_replay_tables") :
                  HooksOf("make_replay_tables")[j] = hook

(* C3: make_replay_tables invokes its hooks in the order start, adder       *)
(* signature, rate limiter, tables, end; every tables hook finds on the     *)
(* builder the adder signature and the rate limiter that the components     *)
(* registered for those hooks derive.                                       *)
C3_ReplayTablePhases ==
    op = "make_replay_tables" =>
        /\ \A j, m \in DOMAIN calls :
              j < m => Rank(calls[j].hook) <= Rank(calls[m].hook)
        /\ \A j \in DOMAIN calls :
              calls[j].hook = "on_building_make_tables" =>
                /\ Definers("on_building_adder_signature") # <<>>
                      => Has(calls[j].saw, "adder_signature_fn")
                /\ Definers("on_building_rate_limiter") # <<>>
                      => Has(calls[j].saw, "rate_limiter_fn")

(* A tables hook ran on a signature and a limiter derived in the same call. *)
C3_Witness ==
    /\ op = "make_replay_tables"
    /\ error = NoError
    /\ ~Has(before, "adder_signature_fn")
    /\ ~Has(before, "rate_limiter_fn")
    /\ \E j \in DOMAIN calls :
          /\ calls[j].hook = "on_building_make_tables"
          /\ Has(calls[j].saw, "adder_signature_fn")
          /\ Has(calls[j].saw, "rate_limiter_fn")

(* C4: with OffPolicyReplayTables registered (and the configuration, the    *)
(* adder signature and the rate limiter supplied), make_replay_tables       *)
(* returns one table per entry of table_network_config, the table of        *)
(* trainer_id t at position t, all names distinct.                          *)
C4_OneTablePerTrainerGroup ==
    (/\ op = "make_replay_tables"
     /\ "OffPolicyReplayTables" \in Range(components)
     /\ "ReplaySetup" \in Range(components)
     /\ Has(builder, "table_network_config"))
    => /\ error = NoError
       /\ LET tables == Undecorated(ret).tables IN
            /\ Len(tables) = builder["table_network_config"].n
            /\ \A t \in DOMAIN tables : tables[t].trainer_id = t - 1
            /\ \A t, u \in DOMAIN tables : t # u => tables[t].name # tables[u].name

(* The namespace the j-th hook invocation of the last operation left. *)
After(j) ==
    ApplyHook(components[calls[j].comp], calls[j].comp, calls[j].hook,
              calls[j].saw).b

Invoked(hook, i) == \E j \in DOMAIN calls : calls[j].hook = hook /\ calls[j].comp = i

(* C5: a component that does not define the dispatched hook is skipped: it  *)
(* is not invoked, no exception is raised for it, the namespace passes      *)
(* unchanged from the defining component before it to the one after it,     *)
(* and every component that defines the hook is invoked.                    *)
C5_AbsentHookSkipped ==
    op # "new" =>
        /\ \A j \in DOMAIN calls : calls[j].hook \in Defines(components[calls[j].comp])
        /\ error.at = "hook" => error.hook \in Defines(components[error.comp])
        /\ \A j \in 1..(Len(calls) - 1) :
              calls[j + 1].hook = calls[j].hook =>
                /\ calls[j + 1].saw = After(j)
                /\ \A i \in (calls[j].comp + 1)..(calls[j + 1].comp - 1) :
                      calls[j].hook \notin Defines(components[i])
        /\ error = NoError =>
              \A hook \in Range(HooksOf(op)), i \in DOMAIN components :
                  hook \in Defines(components[i]) => Invoked(hook, i)

(* A component without the hook stood between two that were invoked. *)
C5_Witness ==
    /\ op \in MakeOps
    /\ error = NoError
    /\ \E j \in 1..(Len(calls) - 1) :
          /\ calls[j + 1].hook = calls[j].hook
          /\ calls[j + 1].comp > calls[j].comp + 1
          /\ calls[j + 1].saw # calls[j].saw

(* The attributes an operation's body assigns from its arguments. *)
StashOf(name) ==
    CASE name = "make_replay_tables" -> {"_env_spec"}
      [] name = "make_dataset_iterator" -> {"_replay_client", "_table_name"}
      [] name = "make_adder" -> {"_replay_client"}
      [] name = "make_variable_server" -> {"_networks"}
      [] name = "make_executor" ->
            {"_networks", "_policy_networks", "_adder", "_variable_source"}
      [] name = "make_trainer" ->
            {"_networks", "_dataset", "_variable_source", "_trainer_networks",
             "_trainer_table_entry", "_logger"}
      [] OTHER -> {}

(* The namespace the operation's first hook was handed. *)
Handed == IF calls = <<>> THEN builder ELSE calls[1].saw

(* C6: what the builder held when a make_* operation was called reaches its *)
(* first hook unchanged except for the operation's stash attributes; every  *)
(* later hook is handed the namespace exactly as the hook before it left    *)
(* it; the namespace the operation leaves is the one its last hook left.    *)
C6_ArtifactsCarriedOver ==
    op \in MakeOps =>
        /\ \A f \in Fields \ StashOf(op) : Handed[f] = before[f]
        /\ \A j \in 1..(Len(calls) - 1) : calls[j + 1].saw = After(j)
        /\ calls # <<>> => builder = After(Len(calls))

(* The hooks of a second operation were handed the first one's artifact. *)
C6_Witness ==
    /\ op \in MakeOps
    /\ error = NoError
    /\ nops = 2
    /\ Len(calls) >= 2
    /\ \E f \in ArtifactFields \ {ArtifactOf(op)} :
          /\ Has(before, f)
          /\ \A j \in DOMAIN calls : calls[j].saw[f] = before[f]

(* C7: when two components both assign the adder during make_adder, the     *)
(* operation raises nothing and returns the adder of the component          *)
(* registered later.                                                        *)
C7_LastWriterWins ==
    (op = "make_adder" /\ Len(Definers("on_building_make_adder")) >= 2)
    => /\ error = NoError
       /\ Undecorated(ret).k = "adder"
       /\ Undecorated(ret).by =
            Definers("on_building_make_adder")[Len(Definers("on_building_make_adder"))]

(* Two components assigned the adder and the later one's was returned. *)
C7_Witness ==
    /\ op = "make_adder"
    /\ error = NoError
    /\ Len(CompsOf("on_building_make_adder")) = 2
    /\ ret.k = "adder"
    /\ ret.by = CompsOf("on_building_make_adder")[2]
    /\ ret.by # CompsOf("on_building_make_adder")[1]

(* What the holder of a returned value r reads in it: the stored entry      *)
(* itself when r is that entry, the copied values otherwise.                *)
Observed(r, vs) ==
    IF r.k = "ref" THEN Content(vs[r.key])
    ELSE [key \in DOMAIN r.m |-> Content(r.m[key])]

IsWrite(name) == name \in {"set_variables", "add_to_variables"}

(* C8: a value get_variables returned, for one key or for a sequence of     *)
(* keys, reads the same after a later set_variables or add_to_variables.    *)
C8_SnapshotUnaffected ==
    [][(/\ vop.name = "get_variables"
        /\ verr = NoError
        /\ vret.k \in {"ref", "dict"}
        /\ IsWrite(vop'.name))
       => Observed(vret, variables') = Observed(vret, variables)]_vars

(* The values a write was given, as an observer reads them. *)
Sent(names, values) ==
    IF names.k = "str" THEN Content(values)
    ELSE [key \in Range(names.keys) |-> Content(values.m[key])]

(* The values given have the arity of the entries they are written to. *)
Fits(names, values, vs) ==
    LET given == Normalise(names, values) IN
    /\ given.k = "dict"
    /\ \A key \in Range(names.keys) :
          /\ key \in DOMAIN given.m /\ key \in DOMAIN vs
          /\ given.m[key].k = vs[key].k
          /\ Len(given.m[key].v) = Len(vs[key].v)

(* C9: get_variables(names) right after a successful set_variables(names,   *)
(* v) of matching arity returns a value that reads as v, for scalar and     *)
(* tuple entries, for one key and for a sequence of keys.                   *)
C9_RoundTrip ==
    [][(/\ vop.name = "set_variables"
        /\ verr = NoError
        /\ Fits(vop.names, vop.vars, variables)
        /\ vop'.name = "get_variables"
        /\ vop'.names = vop.names)
       => /\ verr' = NoError
          /\ vret'.k \in {"ref", "dict"}
          /\ Observed(vret', variables') = Sent(vop.names, vop.vars)]_vars

Count(vs) == vs["count"].v[1]

OthersUnchanged ==
    /\ DOMAIN variables = DOMAIN run.start
    /\ \A key \in DOMAIN variables \ {"count"} : variables[key] = run.start[key]

(* C10 as stated: N calls in a row of add_to_variables(["count"], [1])      *)
(* leave count N higher and every other entry as it was.                    *)
C10_Original ==
    run.nDict = 0 =>
        /\ Count(variables) = Count(run.start) + run.nList
        /\ OthersUnchanged

(* C10: N calls in a row of add_to_variables(["count"], {"count": 1}), the   *)
(* delta given as a mapping by name, raise nothing, leave count N higher    *)
(* and leave every other entry as it was.                                   *)
C10_Amended ==
    run.nList = 0 =>
        /\ run.nDict >= 1 => verr = NoError
        /\ Count(variables) = Count(run.start) + run.nDict
        /\ OthersUnchanged

(* Two such calls in a row were made on a counter already above zero. *)
C10_Witness ==
    /\ run.nList = 0
    /\ run.nDict = 2
    /\ Count(run.start) = 1
    /\ Count(variables) = 3

Named(call) == Range(call.names.keys)

(* C11: get_variables naming a key the collection does not hold, alone or   *)
(* in a sequence, raises a lookup error and returns nothing.                *)
C11_AbsentNameFails ==
    (/\ vop.name = "get_variables"
     /\ \E key \in Named(vop) : key \notin DOMAIN variables)
    => /\ verr.k = "raised"
       /\ verr.at = "KeyError"
       /\ verr.hook \in Named(vop) \ DOMAIN variables
       /\ vret = Absent

(* A sequence whose second name is absent was asked for. *)
C11_Witness ==
    /\ vop.name = "get_variables"
    /\ vop.names = Seq_(<<"count", "missing">>)
    /\ verr = Raised("KeyError", "missing", 2)

(* C12: the collection holds the keys it was constructed with, whatever     *)
(* calls were made and whether they failed or not.                          *)
C12_KeySetFixed == DOMAIN variables = DOMAIN InitialVariables

(* A write naming an absent key has failed after an entry was changed. *)
C12_Witness ==
    /\ IsWrite(vop.name)
    /\ "missing" \in Named(vop)
    /\ verr.k = "raised"
    /\ variables # InitialVariables

(* The first position of `keys` naming a key that vs does not hold. *)
FirstAbsent(keys, vs) ==
    CHOOSE p \in DOMAIN keys :
        /\ keys[p] \notin DOMAIN vs
        /\ \A j \in 1..(p - 1) : keys[j] \in DOMAIN vs

(* C13: set_variables or add_to_variables naming a key the collection does  *)
(* not hold fails, creates no key, and is over at that name: no entry named *)
(* at or after it is written.                                               *)
C13_MissingKeyFatal ==
    [][(/\ IsWrite(vop'.name)
        /\ \E key \in Named(vop') : key \notin DOMAIN variables)
       => /\ verr'.k = "raised"
          /\ vret' = Absent
          /\ DOMAIN variables' = DOMAIN variables
          /\ \A j \in DOMAIN vop'.names.keys :
                (j >= FirstAbsent(vop'.names.keys, variables)
                 /\ vop'.names.keys[j] \in DOMAIN variables)
                => variables'[vop'.names.keys[j]] = variables[vop'.names.keys[j]]]_vars

(* A write naming an absent key and then a held one has failed. *)
C13_Witness ==
    /\ vop.name = "set_variables"
    /\ vop.names = Seq_(<<"missing", "count">>)
    /\ vop.vars.k = "dict"
    /\ verr = Raised("AssertionError", "missing", 1)

(* The value a write gives for `key`, when it gives a tuple for it. *)
GivesTuple(call, key) ==
    LET given == Normalise(call.names, call.vars) IN
    /\ given.k = "dict"
    /\ key \in DOMAIN given.m
    /\ given.m[key].k = "tuple"

GivenArity(call, key) == Len(Normalise(call.names, call.vars).m[key].v)

(* C14: set_variables giving a tuple entry of arity k a value of another    *)
(* arity fails and leaves the entry as it was.                              *)
C14_ArityChecked ==
    [][\A key \in DOMAIN variables :
        (/\ vop'.name = "set_variables"
         /\ key \in Named(vop')
         /\ variables[key].k = "tuple"
         /\ GivesTuple(vop', key)
         /\ GivenArity(vop', key) # Len(variables[key].v))
        => /\ verr'.k = "raised"
           /\ variables'[key] = variables[key]]_vars

(* C15: add_to_variables naming a tuple entry fails and leaves that entry   *)
(* as it was.                                                               *)
C15_NoAddToTuple ==
    [][\A key \in DOMAIN variables :
        (/\ vop'.name = "add_to_variables"
         /\ key \in Named(vop')
         /\ variables[key].k = "tuple")
        => /\ verr'.k = "raised"
           /\ variables'[key] = variables[key]]_vars

(* An add naming a tuple entry, with a delta of its arity, has failed. *)
C15_Witness ==
    /\ vop.name = "add_to_variables"
    /\ vop.names = Str("policy")
    /\ vop.vars = ArrayTuple(<<1, 2>>)
    /\ verr = Raised("AttributeError", "policy", 1)
    /\ variables["policy"] = InitialVariables["policy"]

Times(hook, log) == Len(SelectSeq(log, LAMBDA h : h = hook))

(* C20: constructing the VariableServer dispatches on_variables_init_start, *)
(* on_variables_init, on_variables_checkpoint, on_variables_init_end in     *)
(* that order, each once; until the last has been dispatched the server is  *)
(* initializing and has served no get_variables, set_variables,             *)
(* add_to_variables or run call.                                            *)
C20_ServingAfterInitHooks ==
    LET expected == <<"on_variables_init_start", "on_variables_init",
                      "on_variables_checkpoint", "on_variables_init_end">>
    IN  /\ \A j \in DOMAIN slog : j <= 4 => slog[j] = expected[j]
        /\ \A j \in 1..4 : Times(expected[j], slog) <= 1
        /\ phase = "initializing" =>
              /\ Len(slog) < 4
              /\ vop.name = "__init__"
              /\ rpc = "idle"
        /\ phase = "serving" =>
              \A j \in 1..4 : Times(expected[j], slog) = 1
        /\ (vop.name # "__init__" \/ rpc # "idle") => phase = "serving"

(* A constructed server has served a write. *)
C20_Witness ==
    /\ phase = "serving"
    /\ Len(slog) = 4
    /\ vop.name = "set_variables"
    /\ verr = NoError

(* C17: run(), once called, does not end on its own. *)
C17_RunNeverEnds == rpc \notin {"raised", "returned"}

C19_DisabledKeepsLooping ==
    (service = "VariableSource" /\ ~checkpoint) => (rerr = NoError /\ saves = 0)


AllReturned == \A c \in Clients : At(c, "returned")

(* C16: when two clients add to "count" at the same time, then in every    *)
(* interleaving, once both calls have returned, the stored value is the    *)
(* initial value plus both deltas.                                         *)
C16_NoLostUpdate ==
    (clients # <<>> /\ AllReturned) =>
        Count(variables) = Count(InitialVariables) + requested


EmptyTuple(x) == x.k = "tuple" /\ x.v = <<>>

(* C21: the entries handed to the checkpointer are exactly the entries of  *)
(* the collection that are not an empty tuple.                             *)
C21_SavedIffNotEmpty ==
    checkpointer # Absent =>
        \A key \in DOMAIN variables :
            key \in checkpointer.objects <=> ~EmptyTuple(variables[key])

C21_Witness ==
    /\ checkpointer # Absent
    /\ \E a, b, c \in DOMAIN variables :
        /\ EmptyTuple(variables[a]) /\ a \notin checkpointer.objects
        /\ variables[b].k = "tuple" /\ ~EmptyTuple(variables[b]) /\ b \in checkpointer.objects
        /\ variables[c].k = "scalar" /\ c \in checkpointer.objects

Age == estep - cache.held

Inconsistent(self, b) ==
    /\ self.agent_net_keys # Absent
    /\ \E t \in DOMAIN b.table_network_config :
        LET sorted == sort_str_num(DOMAIN self.agent_net_keys.m) IN
        \/ b.table_network_config[t] > Len(sorted)
        \/ \E j \in 1..b.table_network_config[t] :
              j <= Len(sorted) /\ sorted[j] \notin DOMAIN b.environment_spec.specs.m

C26_MaxSizePositive ==
    /\ tcomp # Absent => tcomp.max_size > 0
    /\ (tbuild # Absent /\ tbuild.replay_tables # Absent) =>
          \A t \in DOMAIN tbuild.replay_tables.tables :
              tbuild.replay_tables.tables[t].max_size > 0


(* The hook of an operation whose implementations assign its artifact. *)
ProducerOf(name) ==
    CASE name = "make_replay_tables" -> "on_building_make_tables"
      [] name = "make_dataset_iterator" -> "on_building_dataset"
      [] name = "make_adder" -> "on_building_make_adder"
      [] name = "make_variable_server" -> "on_building_variable_server"
      [] name = "make_executor" -> "on_building_executor"
      [] OTHER -> "on_building_trainer"

NoProducer(name) ==
    \A i \in DOMAIN components : ProducerOf(name) \notin Defines(components[i])

(* C27: with no component implementing the hook that makes the replay      *)
(* tables, the dataset, the variable server, the executor or the trainer,  *)
(* the make_* operation raises and returns nothing.                        *)
C27_MissingProducerRaises ==
    (op \in MakeOps \ {"make_adder"} /\ NoProducer(op)) =>
        (error # NoError /\ ret = Absent)

(* Every hook of the operation ran on a list with a decorator and other    *)
(* producers, and the return found nothing to hand back.                   *)
C27_Witness ==
    /\ op = "make_variable_server"
    /\ NoProducer(op)
    /\ calls # <<>>
    /\ nops = 2
    /\ error = Raised("return", "variable_server", 0)
    /\ ret = Absent


(* C28: on a builder none of whose components makes an adder, make_adder   *)
(* raises nothing and returns None.                                        *)
C28_AdderOptional ==
    (op = "make_adder" /\ NoProducer(op)) => (error = NoError /\ ret = None)


(* The call the adder is to receive for a hook invoked on the executor. *)
Expected(o) ==
    IF o.hook = "on_execution_observe_first"
    THEN AdderCall("add_first", <<o.saw._timestep, o.saw._extras>>)
    ELSE AdderCall("add", <<o.saw._actions, o.saw._next_timestep,
                            o.saw._next_extras>>)

(* C29: no Observer hook raises; with an adder, the adder has received one *)
(* add_first or add per hook invoked, in order and with the executor's     *)
(* values; without one, nothing was added.                                 *)
C29_ObserverAddsOncePerHook ==
    executor # Absent =>
        /\ oerr = NoError
        /\ IF executor._adder = None
           THEN adder_calls = <<>>
           ELSE /\ Len(adder_calls) = Len(observed)
                /\ \A j \in DOMAIN observed : adder_calls[j] = Expected(observed[j])

(* An executor with no adder has observed a first timestep and a step. *)
C29_Witness ==
    /\ executor # Absent
    /\ executor._adder = None
    /\ Len(observed) = 2
    /\ observed[1].hook = "on_execution_observe_first"
    /\ observed[2].hook = "on_execution_observe"
    /\ oerr = NoError


(* C30: every hook of make_executor and of make_trainer is handed the      *)
(* builder with the arguments of this call in the attributes the body      *)
(* assigns them to, whatever an earlier call left there.                   *)
C30_InputsStashedBeforeHooks ==
    op \in {"make_executor", "make_trainer"} =>
        \A j \in DOMAIN calls : \A f \in StashOf(op) : calls[j].saw[f] = callargs[f]

(* A second call with other arguments than the first ran all its hooks. *)
C30_Witness ==
    /\ op \in {"make_executor", "make_trainer"}
    /\ error = NoError
    /\ Len(calls) >= 3
    /\ calls[1].hook = StartOf(op)
    /\ \A f \in StashOf(op) \ {"_logger"} :
          Has(before, f) /\ before[f] # callargs[f]


(* An artifact without the stamps and wrappers later hooks put around it. *)
RECURSIVE Core(_)
Core(v) == IF v.k \in {"decorated", "statistics"} THEN Core(v.inner) ELSE v

Wired == {"make_executor", "make_trainer"}

ResetOf(kind, e) ==
    IF kind = "parallel" THEN parallel_reset(Wrapper_init(kind), e).ret
    ELSE aec_reset(Wrapper_init(kind), e).ret

IsParallel == wrapper # Absent /\ wrapper.kind = "parallel" /\ timestep # Absent
IsAEC == wrapper # Absent /\ wrapper.kind = "aec" /\ timestep # Absent

C35_StepResetsWhenPending ==
    wrapper # Absent =>
        /\ wcall.name = "__init__" => wrapper._reset_next_step
        /\ (wcall.name = "step" /\ wcall.pending) =>
              /\ ~wcall.stepped
              /\ environment.given = Absent
              /\ timestep = ResetOf(wrapper.kind, wcall.was)
              /\ timestep.step_type = "FIRST"
        /\ ~environment.misused
        /\ wcall.stepped =>
              /\ wcall.was.started
              /\ timestep.discount # Absent
              /\ wrapper._discounts # Absent

(* The first call on a new sequential wrapper was a step. *)
C35_Witness ==
    /\ IsAEC
    /\ Len(wlog) = 1
    /\ wcall.name = "step"
    /\ wcall.pending
    /\ environment.started

(* The agent whose turn it was when the last call was made had finished. *)
WasDone == wcall.was.dones[AgentOrder[wcall.was.selection]]

(* C36: a step of the sequential wrapper that steps the environment passes *)
(* None and returns LAST when the agent whose turn it is has finished, and *)
(* passes the action and returns MID otherwise; after it a reset is        *)
(* pending exactly when the environment reports env_done.                  *)
C36_AECStepTypes ==
    (IsAEC /\ wcall.stepped) =>
        /\ WasDone => (environment.given = None /\ timestep.step_type = "LAST")
        /\ ~WasDone =>
              (environment.given = wcall.action /\ timestep.step_type = "MID")
        /\ wrapper._reset_next_step <=> environment.env_done

(* A LAST step for one agent that leaves no reset pending. *)
C36_Witness ==
    /\ IsAEC
    /\ wcall.stepped
    /\ WasDone
    /\ timestep.step_type = "LAST"
    /\ ~environment.env_done
    /\ ~wrapper._reset_next_step

(* C37: every bundle the parallel wrapper returns has a discount of 1 for  *)
(* every possible agent.                                                   *)
C37_ParallelDiscountOne ==
    IsParallel => \A a \in possible_agents : timestep.discount[a] = convert_np_type(1)

(* The LAST step of an episode. *)
C37_Witness ==
    /\ IsParallel
    /\ wcall.stepped
    /\ timestep.step_type = "LAST"
    /\ Len(wlog) >= 3


(* C33: whenever a call on the server is about to run its work hook, the   *)
(* server's attributes hold the names and the values passed to that call,  *)
(* whatever other calls are in progress.                                   *)
C33_CallsDoNotInterfere ==
    \A c \in DOMAIN clients :
        (service = "VariableServer" /\ At(c, "work")) =>
            /\ server._names = CountOnly
            /\ server._vars = DeltaArg(clients[c].delta)


(* C34: a set_variables or add_to_variables call that names a key the      *)
(* collection does not hold leaves every entry as it was, the entries      *)
(* named before the absent key included.                                   *)
C34_FailedWriteChangesNothing ==
    [][(/\ IsWrite(vop'.name)
        /\ \E key \in Named(vop') : key \notin DOMAIN variables)
       => variables' = variables]_vars


(* C38: the converted spec has, for every agent with a discrete action     *)
(* spec of n values, an unbounded float32 action spec of shape (n,) and    *)
(* the agent's observation, reward and discount specs; every other agent's *)
(* spec is as given; the spec handed in is as it was; converting the       *)
(* result returns it unchanged.                                            *)
C38_DiscreteToBounded ==
    converted # Absent =>
        /\ converted.keys = envspec0.keys
        /\ \A key \in Agents :
            LET old == envspec0.specs[key]
                new == converted.specs[key]
            IN  IF old.actions.type = "DiscreteArray"
                THEN /\ new.actions.type = "BoundedArray"
                     /\ new.actions.shape = <<old.actions.num_values>>
                     /\ new.actions.dtype = "float32"
                     /\ \A j \in 1..old.actions.num_values :
                           /\ new.actions.minimum[j] = Inf(0 - 1)
                           /\ new.actions.maximum[j] = Inf(1)
                     /\ new.observations = old.observations
                     /\ new.rewards = old.rewards
                     /\ new.discounts = old.discounts
                ELSE new = old
        /\ envspec = envspec0
        /\ reconverted # Absent => reconverted = converted

(* A spec with a discrete and a continuous agent was converted twice. *)
C38_Witness ==
    /\ reconverted # Absent
    /\ envspec0.specs["agent_0"].actions = DiscreteArray(3)
    /\ envspec0.specs["agent_1"].actions.type = "BoundedArray"
    /\ converted # envspec0


(* C39: the constructor dispatches only on_building_init_start and         *)
(* on_building_init_end, every start before every end; no start hook finds *)
(* the agent ids or types on the builder, and every end hook finds both,   *)
(* derived from the configuration the start hooks left.                    *)
C39_InitPhases ==
    op \in {"__init__", "init_failed"} =>
        /\ \A j \in DOMAIN calls :
              /\ calls[j].hook \in {"on_building_init_start", "on_building_init_end"}
              /\ calls[j].hook = "on_building_init_start" =>
                    /\ ~Has(calls[j].saw, "_agents")
                    /\ ~Has(calls[j].saw, "_agent_types")
                    /\ \A i \in 1..(j - 1) : calls[i].hook = "on_building_init_start"
              /\ calls[j].hook = "on_building_init_end" =>
                    /\ Has(calls[j].saw, "_config")
                    /\ calls[j].saw["_agents"] =
                          [k |-> "agent_ids", config |-> calls[j].saw["_config"]]
                    /\ calls[j].saw["_agent_types"] =
                          [k |-> "agent_types", config |-> calls[j].saw["_config"]]
        /\ \A f \in ArtifactFields : ~Has(builder, f)

(* A builder was constructed from a list with a set-up component and a     *)
(* component that hooks the end of construction.                           *)
C39_Witness ==
    /\ op = "__init__"
    /\ error = NoError
    /\ \E i, j \in DOMAIN calls :
          /\ i < j
          /\ calls[i].hook = "on_building_init_start"
          /\ calls[j].hook = "on_building_init_end"

====
